---- MODULE Spec2Model ----
(***************************************************************************)
(* Model of the asynchronous guide pipeline of leveling-ai: the guide      *)
(* status row, the conditional status update (claim_status), the five      *)
(* Celery tasks and the service methods they run.                          *)
(*                                                                         *)
(* The database is PostgreSQL at READ COMMITTED.  `status` is the          *)
(* committed value of the guide row; an UPDATE of the row takes the row    *)
(* lock (`rowLock`) until the session commits or rolls back, and a second  *)
(* UPDATE of the row waits for it.                                         *)
(*                                                                         *)
(* GuideStatus members are modelled by the names the services write        *)
(* (GuideStatus.TEXT_EXTRACTED is "TEXT_EXTRACTED").                       *)
(***************************************************************************)
EXTENDS Naturals, Integers, Sequences, FiniteSets, TLC

\* ------------------------------------------------------------------ bounds
NWorkers == 2
NCallers == 3
MaxLevels == 2
MaxComps == 1
MaxDup == 1
MaxCount == 4
MaxN == 14
MaxFanLevels == 3

\* ------------------------------------------------------- program constants
CHUNK_SIZE == 6
CHUNK_THRESHOLD == 8

\* settings.LLM_MAX_RETRIES
LLM_MAX_RETRIES == 2

\* settings.LLM_MAX_OUTPUT_TOKENS, LLM_TIMEOUT_SECONDS, LLM_TEMPERATURE and
\* GEMINI_MODEL
LLM_MAX_OUTPUT_TOKENS == 800
LLM_TIMEOUT_SECONDS == 30
LLM_TEMPERATURE == "0.4"
GEMINI_MODEL == "gemini-1.5-pro"

\* ---------------------------------------------------------------- statuses
QUEUED == "QUEUED"
EXTRACTING_TEXT == "EXTRACTING_TEXT"
TEXT_EXTRACTED == "TEXT_EXTRACTED"
PARSING_MATRIX == "PARSING_MATRIX"
MATRIX_PARSED == "MATRIX_PARSED"
GENERATING_EXAMPLES == "GENERATING_EXAMPLES"
DONE == "DONE"
FAILED_BAD_PDF == "FAILED_BAD_PDF"
FAILED_PARSE == "FAILED_PARSE"
FAILED_GENERATION == "FAILED_GENERATION"

Statuses ==
    { QUEUED, EXTRACTING_TEXT, TEXT_EXTRACTED, PARSING_MATRIX, MATRIX_PARSED,
      GENERATING_EXAMPLES, DONE, FAILED_BAD_PDF, FAILED_PARSE, FAILED_GENERATION }

Terminal == { DONE, FAILED_BAD_PDF, FAILED_PARSE, FAILED_GENERATION }

\* The transition table of the status machine.
LegalTransitions ==
    { <<QUEUED, EXTRACTING_TEXT>>,
      <<EXTRACTING_TEXT, TEXT_EXTRACTED>>,
      <<EXTRACTING_TEXT, FAILED_BAD_PDF>>,
      <<TEXT_EXTRACTED, PARSING_MATRIX>>,
      <<PARSING_MATRIX, MATRIX_PARSED>>,
      <<PARSING_MATRIX, FAILED_PARSE>>,
      <<MATRIX_PARSED, GENERATING_EXAMPLES>>,
      <<GENERATING_EXAMPLES, DONE>>,
      <<GENERATING_EXAMPLES, FAILED_GENERATION>> }

Workers == 1..NWorkers
Callers == 1..NCallers
NoLock == 0

\* create_guide(pdf_path=stored.path): the path of the uploaded object.
stored_path == "stored.path"

\* ------------------------------------------------------------ claim_status
\* UPDATE leveling_guides SET status = to WHERE id = :id AND status = from;
\* returns updated == 1.  `st` is the row's status when the UPDATE runs.
claim_status_Unconditional(st, from_status, to_status) ==
    [updated |-> TRUE, status |-> to_status]

claim_status(st, from_status, to_status) ==
    [updated |-> (st = from_status),
     status |-> IF st = from_status THEN to_status ELSE st]

\* update_status: SELECT the row, set guide.status, flush.  No condition on
\* the current status.
update_status(st, new_status) == new_status

\* create_parse_run: add one ParseRun row and flush.
create_parse_run(runs, run) == Append(runs, run)

\* ------------------------------------------------------------------- tasks
\* A Celery message: the task name and, for generate_cells_task, its
\* (level_id, start, end) arguments.
Task(t) == [type |-> t, level |-> 0, a |-> 0, b |-> 0]
GenTask(l, a, b) == [type |-> "gen", level |-> l, a |-> a, b |-> b]
T_extract == Task("extract")
T_parse == Task("parse")
T_kickoff == Task("kickoff")
T_finalize == Task("finalize")
NoTask == Task("none")

Min(x, y) == IF x < y THEN x ELSE y

\* _chunk_ranges(n, chunk_size): [(0,k),(k,2k),...] as a sequence of pairs.
RECURSIVE ChunkRangesFrom(_, _, _)
ChunkRangesFrom(i, n, chunk_size) ==
    IF i < n
    THEN <<<<i, Min(i + chunk_size, n)>>>>
         \o ChunkRangesFrom(Min(i + chunk_size, n), n, chunk_size)
    ELSE <<>>

_chunk_ranges(n, chunk_size) == ChunkRangesFrom(0, n, chunk_size)

effective_chunk_size_Always(n) == CHUNK_SIZE

\* effective_chunk_size = chunk_size if len(comps) > 8 else len(comps)
effective_chunk_size(n) == IF n > CHUNK_THRESHOLD THEN CHUNK_SIZE ELSE n

Range(seq) == { seq[i] : i \in 1..Len(seq) }

\* start_phase4, lines 231-238: `for lvl in levels: for (a, b) in ranges:
\* send_task(...)`, as the sequence of messages sent for levels 1..nl.
SentTasks(nl, ranges) ==
    [i \in 1..(nl * Len(ranges)) |->
        GenTask(((i - 1) \div Len(ranges)) + 1,
                ranges[((i - 1) % Len(ranges)) + 1][1],
                ranges[((i - 1) % Len(ranges)) + 1][2])]

\* The generate_cells_task messages start_phase4 sends for nl levels and nc
\* competencies: one per (level, range).
FanOut(nl, nc) ==
    Range(SentTasks(nl, _chunk_ranges(nc, effective_chunk_size(nc))))

AllCells == (1..MaxComps) \X (1..MaxLevels)

Tasks ==
    { T_extract, T_parse, T_kickoff, T_finalize }
    \cup UNION { FanOut(MaxLevels, nc) : nc \in 1..MaxComps }

\* What the parse LLM may return: nl level labels, nc competency rows and
\* the cells keyed by (competency, level); `missing` drops the last key.
ParsedChoices ==
    { [nl |-> nl, nc |-> nc,
       cells |-> ((1..nc) \X (1..nl)) \ (IF missing THEN {<<nc, nl>>} ELSE {})] :
        nl \in 0..MaxLevels, nc \in 0..MaxComps, missing \in BOOLEAN }

VARIABLES
    status,      \* committed guide.status
    rowLock,     \* session holding an uncommitted UPDATE of the guide row
    lastWrite,   \* <<old, new>> of the last UPDATE of guide.status, or <<>>
    errMsg,      \* guide.error_message: "none" | "bad_pdf" | "parse_error"
    artifacts,   \* types of the guide's GuideArtifact rows
    parseRuns,   \* the ParseRun rows, in insertion order
    nLevels,     \* Level rows are the codes 1..nLevels
    nComps,      \* Competency rows are the names 1..nComps, position = name - 1
    cells,       \* GuideCell rows, as <<competency, level>>
    pdfPath,     \* guide.pdf_path
    cellGen,     \* CellGeneration row of a cell: "none" | "SUCCESS" | "FAILED"
    queue,       \* broker: pending deliveries per task message
    seen,        \* task messages ever sent
    dups,        \* messages sent again so far: redeliveries and self.retry
    wk,          \* worker processes
    pdfGood,     \* the uploaded PDF passes the quality gate
    cFrom,       \* claim callers: from_status argument
    cTo,         \* claim callers: to_status argument
    cpc,         \* claim callers: "absent" | "call" | "updated" | "done"
    cres,        \* claim callers: "none" | "true" | "false"
    fnArgs,      \* arguments of a function applied on its own, else <<>>
    fnRes,       \* <<value>> once the function has returned, else <<>>
    uRows,       \* committed CellGeneration rows of one key: their statuses
    uPc,         \* upsert sessions: "absent" | "select" | "write" | "commit" | "done" | "error"
    uSaw,        \* upsert sessions: the SELECT found an existing row
    uSt,         \* upsert sessions: the status argument
    uPend,       \* upsert sessions: flushed, uncommitted "none" | "insert" | "update"
    run,         \* one task message followed through the runner, else NoRun
    gw           \* one LLM gateway invocation followed on its own, else NoCall

db == <<status, errMsg, artifacts, parseRuns, nLevels, nComps, cells, cellGen, pdfPath>>
broker == <<queue, seen, dups>>
callers == <<cFrom, cTo, cpc, cres>>
pure == <<fnArgs, fnRes>>
upserts == <<uRows, uPc, uSaw, uSt, uPend>>
services == <<run, gw>>
vars == <<db, rowLock, lastWrite, broker, wk, pdfGood, callers, pure, upserts, services>>

Idle ==
    [task |-> NoTask, pc |-> "idle", snap |-> "", wanted |-> {},
     res |-> "", rstatus |-> "", enq |-> -1, claimed |-> FALSE, calls |-> 0]

Begin(t, pc, snap) == [Idle EXCEPT !.task = t, !.pc = pc, !.snap = snap]

\* The worker's record when its task run returns or raises.
End(r, res) == [r EXCEPT !.pc = "return", !.res = res]

PipelineIdle ==
    /\ rowLock = NoLock
    /\ lastWrite = <<>>
    /\ errMsg = "none"
    /\ artifacts = {}
    /\ parseRuns = <<>>
    /\ nLevels = 0
    /\ nComps = 0
    /\ cells = {}
    /\ cellGen = [c \in AllCells |-> "none"]
    /\ pdfPath = stored_path
    /\ queue = [t \in Tasks |-> 0]
    /\ seen = {}
    /\ dups = 0
    /\ wk = [w \in Workers |-> Idle]
    /\ pdfGood = TRUE

\* No session is running upsert_cell_generation on its own.
UpsertsIdle ==
    /\ uRows = <<>>
    /\ uPc = [c \in Callers |-> "absent"]
    /\ uSaw = [c \in Callers |-> FALSE]
    /\ uSt = [c \in Callers |-> "SUCCESS"]
    /\ uPend = [c \in Callers |-> "none"]

\* No task message and no gateway invocation is followed on its own.
NoRun == [task |-> "none"]
NoCall == [pc |-> "none"]
ServicesIdle == run = NoRun /\ gw = NoCall

\* No function is being applied on its own.
FunctionsIdle ==
    /\ fnArgs = <<>>
    /\ fnRes = <<>>
    /\ UpsertsIdle

PureIdle == FunctionsIdle /\ ServicesIdle

CallersIdle ==
    /\ cFrom = QUEUED
    /\ cTo = QUEUED
    /\ cpc = [c \in Callers |-> "absent"]
    /\ cres = [c \in Callers |-> "none"]

\* ------------------------------------------- claim_status under concurrency
\* N sessions call claim_status(guide, from, to) and commit, as parse_matrix
\* and start_phase4 do.
InitClaim ==
    /\ PipelineIdle
    /\ PureIdle
    /\ cFrom \in Statuses
    /\ cTo \in Statuses \ {cFrom}
    /\ status = cFrom
    /\ cpc \in [Callers -> {"call", "absent"}]
    /\ \E c \in Callers : cpc[c] = "call"
    /\ cres = [c \in Callers |-> "none"]

SetStatusTo(s) ==
    /\ status' = s
    /\ UNCHANGED <<errMsg, artifacts, parseRuns, nLevels, nComps, cells, cellGen, pdfPath>>

\* The UPDATE statement.  It waits while another session holds the row with
\* an uncommitted UPDATE and the committed row matches the WHERE clause.
ClaimUpdate(c) ==
    /\ cpc[c] = "call"
    /\ rowLock = NoLock \/ status # cFrom
    /\ LET r == claim_status(status, cFrom, cTo) IN
        IF r.updated
        THEN /\ rowLock' = c
             /\ cpc' = [cpc EXCEPT ![c] = "updated"]
             /\ cres' = [cres EXCEPT ![c] = "true"]
             /\ lastWrite' = <<status, r.status>>
        ELSE /\ cpc' = [cpc EXCEPT ![c] = "done"]
             /\ cres' = [cres EXCEPT ![c] = "false"]
             /\ UNCHANGED <<rowLock, lastWrite>>
    /\ UNCHANGED <<db, broker, wk, pdfGood, cFrom, cTo, pure, upserts, services>>

\* self.db.commit() after a successful claim.
ClaimCommit(c) ==
    /\ cpc[c] = "updated"
    /\ rowLock = c
    /\ SetStatusTo(lastWrite[2])
    /\ rowLock' = NoLock
    /\ cpc' = [cpc EXCEPT ![c] = "done"]
    /\ UNCHANGED <<lastWrite, broker, wk, pdfGood, cFrom, cTo, cres, pure, upserts, services>>

NextClaim == \E c \in Callers : ClaimUpdate(c) \/ ClaimCommit(c)

SpecClaim == InitClaim /\ [][NextClaim]_vars

TrueCallers == { c \in Callers : cres[c] = "true" }

\* C1: among the N calls claim_status(guide, a, b) on a guide whose status is
\* a, exactly one returns true, the status ends as b, and the calls that
\* return false leave the row as it is.
C1_ClaimAtomic ==
    /\ Cardinality(TrueCallers) <= 1
    /\ status \in {cFrom, cTo}
    /\ status = cTo <=> \E c \in Callers : cres[c] = "true" /\ cpc[c] = "done"
    /\ (\A c \in Callers : cpc[c] \in {"done", "absent"})
          => Cardinality(TrueCallers) = 1 /\ status = cTo

C1_Witness ==
    /\ \A c \in Callers : cpc[c] = "done"
    /\ Cardinality({ c \in Callers : cres[c] = "false" }) = NCallers - 1
    /\ status = cTo


\* ------------------------------------------------------------ the pipeline
Init ==
    /\ PipelineIdle
    /\ CallersIdle
    /\ PureIdle
    /\ status = QUEUED

\* celery send_task / delay: one more pending delivery of message t.
Enqueue(q, t) == [q EXCEPT ![t] = @ + 1]
Dequeue(q, t) == [q EXCEPT ![t] = @ - 1]

RECURSIVE EnqueueAll(_, _)
EnqueueAll(q, ts) ==
    IF ts = {} THEN q
    ELSE LET t == CHOOSE x \in ts : TRUE IN EnqueueAll(Enqueue(q, t), ts \ {t})

\* raise self.retry(exc=e): the message is sent again while the budget of
\* re-sent messages lasts.
Retry(q, t) ==
    IF dups < MaxDup
    THEN /\ queue' = Enqueue(q, t)
         /\ dups' = dups + 1
    ELSE /\ queue' = q
         /\ dups' = dups

\* Freeing a worker touches nothing but the worker's own record, so it is
\* scheduled first: no other step is taken while a worker is returning.
NoneReturning == \A w \in Workers : wk[w].pc # "return"

\* Worker w is at position pc of its task function.
At(w, pc) == NoneReturning /\ wk[w].pc = pc

\* A worker w receives a delivery of message t.
Receives(w, t) ==
    /\ At(w, "idle")
    /\ queue[t] > 0

\* At-least-once delivery: a message already sent is delivered once more
\* (late acknowledgement, redelivery on worker loss or visibility timeout).
Redeliver(t) ==
    /\ NoneReturning
    /\ t \in seen
    /\ queue[t] = 0
    /\ dups < MaxDup
    /\ queue' = Enqueue(queue, t)
    /\ dups' = dups + 1
    /\ UNCHANGED <<db, rowLock, lastWrite, seen, wk, pdfGood, callers, pure, upserts, services>>

\* The task function has returned or raised: the worker is free again.
Return(w) ==
    /\ wk[w].pc = "return"
    /\ wk' = [wk EXCEPT ![w] = Idle]
    /\ UNCHANGED <<db, rowLock, lastWrite, broker, pdfGood, callers, pure, upserts, services>>

\* POST /api/guides: create_guide_from_upload has created the guide QUEUED
\* and calls extract_text_task.delay(guide_id).
Upload ==
    /\ NoneReturning
    /\ seen = {}
    /\ pdfGood' \in BOOLEAN
    /\ queue' = Enqueue(queue, T_extract)
    /\ seen' = {T_extract}
    /\ UNCHANGED <<db, rowLock, lastWrite, dups, wk, callers, pure, upserts, services>>

\* ----------------------------------------------------------------- extract
\* extract_pdf_text, lines 109-119: load the guide, then
\* update_status(EXTRACTING_TEXT), which flushes the UPDATE and so takes the
\* row lock; nothing is committed yet.
ExtractStart(w) ==
    /\ Receives(w, T_extract)
    /\ rowLock = NoLock
    /\ queue' = Dequeue(queue, T_extract)
    /\ rowLock' = w
    /\ lastWrite' = <<status, update_status(status, EXTRACTING_TEXT)>>
    /\ wk' = [wk EXCEPT ![w] = Begin(T_extract, "E_work", status)]
    /\ UNCHANGED <<db, seen, dups, pdfGood, callers, pure, upserts, services>>

\* lines 121-182: download, extract, score, upload the text, upsert the
\* PDF_TEXT artifact, append the ParseRun, update_status(next_status), commit.
ExtractCommit(w) ==
    /\ At(w, "E_work")
    /\ LET bad == ~pdfGood
           next_status == IF bad THEN FAILED_BAD_PDF ELSE TEXT_EXTRACTED
       IN /\ artifacts' = artifacts \cup {"PDF_TEXT"}
          /\ parseRuns' = create_parse_run(parseRuns, IF bad THEN "EXTRACT_FAILED" ELSE "EXTRACT_SUCCESS")
          /\ status' = update_status(EXTRACTING_TEXT, next_status)
          /\ errMsg' = IF bad THEN "bad_pdf" ELSE errMsg
          /\ lastWrite' = <<EXTRACTING_TEXT, update_status(EXTRACTING_TEXT, next_status)>>
    /\ rowLock' = NoLock
    /\ wk' = [wk EXCEPT ![w].pc = "E_after"]
    /\ UNCHANGED <<nLevels, nComps, cells, cellGen, pdfPath, broker, pdfGood, callers, pure, upserts, services>>

\* A storage or extractor exception inside extract_pdf_text: the task's
\* `except Exception` retries and db.close() rolls the session back.
ExtractFail(w) ==
    /\ At(w, "E_work")
    /\ rowLock' = NoLock
    /\ Retry(queue, T_extract)
    /\ wk' = [wk EXCEPT ![w] = End(@, "retry")]
    /\ UNCHANGED <<db, lastWrite, seen, pdfGood, callers, pure, upserts, services>>

chained_Unconditional(t, st) ==
    IF t = T_extract THEN {T_parse}
    ELSE IF t = T_parse THEN {T_kickoff}
    ELSE {}

\* The "chained" task of extract_text_task (lines 45-48) and of
\* parse_matrix_task (lines 94-97) for the status st read back after the
\* phase; generate_cells_task has no .delay call.
chained(t, st) ==
    IF t = T_extract /\ st = TEXT_EXTRACTED THEN {T_parse}
    ELSE IF t = T_parse /\ st = MATRIX_PARSED THEN {T_kickoff}
    ELSE {}

\* extract_text_task, lines 38-51: re-read the status and chain the parse.
ExtractAfter(w) ==
    /\ At(w, "E_after")
    /\ IF chained(T_extract, status) # {}
       THEN /\ queue' = Enqueue(queue, T_parse)
            /\ seen' = seen \cup {T_parse}
            /\ wk' = [wk EXCEPT ![w] = [End(@, "chained") EXCEPT !.rstatus = status]]
       ELSE /\ UNCHANGED <<queue, seen>>
            /\ wk' = [wk EXCEPT ![w] = [End(@, "ok") EXCEPT !.rstatus = status]]
    /\ UNCHANGED <<db, rowLock, lastWrite, dups, pdfGood, callers, pure, upserts, services>>


\* ------------------------------------------------------------------- parse
Max(x, y) == IF x > y THEN x ELSE y

HasMatrixJson == "MATRIX_JSON" \in artifacts

\* parse_matrix, lines 187-209: the status-based fast paths before the claim.
ParseStart(w) ==
    /\ Receives(w, T_parse)
    /\ queue' = Dequeue(queue, T_parse)
    /\ LET r == Begin(T_parse, "P_claim", status) IN
        IF status = MATRIX_PARSED /\ HasMatrixJson
        THEN wk' = [wk EXCEPT ![w] = [r EXCEPT !.pc = "P_after", !.res = "parsed"]]
        ELSE IF status = FAILED_BAD_PDF
        THEN wk' = [wk EXCEPT ![w] = End(r, "app_error")]
        ELSE wk' = [wk EXCEPT ![w] = r]
    /\ UNCHANGED <<db, rowLock, lastWrite, seen, dups, pdfGood, callers, pure, upserts, services>>

\* lines 212-237: claim TEXT_EXTRACTED -> PARSING_MATRIX and commit; on a
\* failed claim re-read the guide and return the stored matrix or raise 409.
ParseClaim(w) ==
    /\ At(w, "P_claim")
    /\ rowLock = NoLock \/ status # TEXT_EXTRACTED
    /\ LET r == claim_status(status, TEXT_EXTRACTED, PARSING_MATRIX) IN
        IF r.updated
        THEN /\ SetStatusTo(r.status)
             /\ lastWrite' = <<status, r.status>>
             /\ wk' = [wk EXCEPT ![w].pc = "P_llm", ![w].claimed = TRUE]
        ELSE /\ UNCHANGED <<db, lastWrite>>
             /\ IF status = MATRIX_PARSED /\ HasMatrixJson
                THEN wk' = [wk EXCEPT ![w].pc = "P_after", ![w].res = "parsed"]
                ELSE wk' = [wk EXCEPT ![w] = End(@, "app_error")]
    /\ UNCHANGED <<rowLock, broker, pdfGood, callers, pure, upserts, services>>

\* lines 240-252: the PDF_TEXT artifact is read and the text blob downloaded;
\* a storage exception leaves parse_matrix before its try blocks and the task
\* retries.
ParseFetchFail(w) ==
    /\ At(w, "P_llm")
    /\ Retry(queue, T_parse)
    /\ wk' = [wk EXCEPT ![w] = End(@, "fetch_error")]
    /\ UNCHANGED <<db, rowLock, lastWrite, seen, pdfGood, callers, pure, upserts, services>>

\* lines 261-267 and 290-345: the LLM returns the matrix p; one transaction
\* upserts MATRIX_JSON, the levels, competencies and cells, appends the
\* SUCCESS ParseRun, sets MATRIX_PARSED, and commits.
ParsePersist(w, p) ==
    /\ At(w, "P_llm")
    /\ "PDF_TEXT" \in artifacts
    /\ rowLock = NoLock
    /\ artifacts' = artifacts \cup {"MATRIX_JSON"}
    /\ nLevels' = Max(nLevels, p.nl)
    /\ nComps' = Max(nComps, p.nc)
    /\ cells' = cells \cup p.cells
    /\ parseRuns' = create_parse_run(parseRuns, "PARSE_SUCCESS")
    /\ status' = update_status(status, MATRIX_PARSED)
    /\ lastWrite' = <<status, update_status(status, MATRIX_PARSED)>>
    /\ wk' = [wk EXCEPT ![w].pc = "P_after", ![w].res = "parsed"]
    /\ UNCHANGED <<errMsg, cellGen, pdfPath, rowLock, broker, pdfGood, callers, pure, upserts, services>>

\* lines 268-287 and 347-368: the LLM call or the persistence raised; a FAILED
\* ParseRun and FAILED_PARSE are committed and the exception is re-raised
\* (an LLMError is no AppError, so the task retries).
ParseFail(w) ==
    /\ At(w, "P_llm")
    /\ "PDF_TEXT" \in artifacts
    /\ rowLock = NoLock
    /\ parseRuns' = create_parse_run(parseRuns, "PARSE_FAILED")
    /\ status' = update_status(status, FAILED_PARSE)
    /\ errMsg' = "parse_error"
    /\ lastWrite' = <<status, update_status(status, FAILED_PARSE)>>
    /\ Retry(queue, T_parse)
    /\ wk' = [wk EXCEPT ![w] = End(@, "error")]
    /\ UNCHANGED <<artifacts, nLevels, nComps, cells, cellGen, pdfPath, rowLock, seen,
                   pdfGood, callers, pure, upserts, services>>

\* lines 270-286 and 350-366, `except Exception: self.db.rollback()`: the
\* transaction that records the failure raises as well; nothing is written
\* and the first exception is re-raised.
ParseFailUnrecorded(w) ==
    /\ At(w, "P_llm")
    /\ "PDF_TEXT" \in artifacts
    /\ Retry(queue, T_parse)
    /\ wk' = [wk EXCEPT ![w] = End(@, "error")]
    /\ UNCHANGED <<db, rowLock, lastWrite, seen, pdfGood, callers, pure, upserts, services>>

\* parse_matrix_task, lines 86-99: re-read the status and chain the kickoff.
ParseAfter(w) ==
    /\ At(w, "P_after")
    /\ IF chained(T_parse, status) # {}
       THEN /\ queue' = Enqueue(queue, T_kickoff)
            /\ seen' = seen \cup {T_kickoff}
       ELSE UNCHANGED <<queue, seen>>
    /\ wk' = [wk EXCEPT ![w] = [End(@, @.res) EXCEPT !.rstatus = status]]
    /\ UNCHANGED <<db, rowLock, lastWrite, dups, pdfGood, callers, pure, upserts, services>>

\* ----------------------------------------------------------------- kickoff
\* start_phase4, lines 167-190: the status checks before the claim.
KickoffStart(w) ==
    /\ Receives(w, T_kickoff)
    /\ queue' = Dequeue(queue, T_kickoff)
    /\ LET r == Begin(T_kickoff, "K_claim", status) IN
        IF status = DONE
        THEN wk' = [wk EXCEPT ![w] = [End(r, "ok") EXCEPT !.rstatus = status]]
        ELSE IF status = GENERATING_EXAMPLES
        THEN wk' = [wk EXCEPT ![w] =
                      [End(r, "ok") EXCEPT !.rstatus = status, !.enq = 0]]
        ELSE IF status # MATRIX_PARSED
        THEN wk' = [wk EXCEPT ![w] = End(r, "app_error")]
        ELSE wk' = [wk EXCEPT ![w] = r]
    /\ UNCHANGED <<db, rowLock, lastWrite, seen, dups, pdfGood, callers, pure, upserts, services>>

\* lines 193-204: claim MATRIX_PARSED -> GENERATING_EXAMPLES; a failed claim
\* returns {ok, guide_id, status: refreshed.status}.
KickoffClaim(w) ==
    /\ At(w, "K_claim")
    /\ rowLock = NoLock \/ status # MATRIX_PARSED
    /\ LET r == claim_status(status, MATRIX_PARSED, GENERATING_EXAMPLES) IN
        IF r.updated
        THEN /\ SetStatusTo(r.status)
             /\ lastWrite' = <<status, r.status>>
             /\ wk' = [wk EXCEPT ![w].pc = "K_enqueue", ![w].claimed = TRUE]
        ELSE /\ UNCHANGED <<db, lastWrite>>
             /\ wk' = [wk EXCEPT ![w] = [End(@, "ok") EXCEPT !.rstatus = status]]
    /\ UNCHANGED <<rowLock, broker, pdfGood, callers, pure, upserts, services>>

\* lines 207-255: load the levels and competencies, send one
\* generate_cells_task per (level, range) and one finalize_generation_task.
KickoffEnqueue(w) ==
    /\ At(w, "K_enqueue")
    /\ IF nLevels = 0 \/ nComps = 0
       THEN /\ wk' = [wk EXCEPT ![w] = End(@, "app_error")]
            /\ UNCHANGED <<queue, seen>>
       ELSE LET sent == FanOut(nLevels, nComps) IN
            /\ queue' = Enqueue(EnqueueAll(queue, sent), T_finalize)
            /\ seen' = seen \cup sent \cup {T_finalize}
            /\ wk' = [wk EXCEPT ![w] =
                        [End(@, "ok") EXCEPT !.rstatus = GENERATING_EXAMPLES,
                                             !.enq = Cardinality(sent)]]
    /\ UNCHANGED <<db, rowLock, lastWrite, dups, pdfGood, callers, pure, upserts, services>>


\* ---------------------------------------------------------- generate chunk
\* comps[start:end] at one level: the GuideCell rows of the chunk.
ChunkCells(l, a, b) == { c \in cells : c[2] = l /\ c[1] \in (a + 1)..Min(b, nComps) }

WantedCells_NoFilter(l, a, b) == ChunkCells(l, a, b)

\* generate_level_chunk, lines 319-336: the cells whose CellGeneration row is
\* not already SUCCESS.
WantedCells(l, a, b) == { c \in ChunkCells(l, a, b) : cellGen[c] # "SUCCESS" }

\* upsert_cell_generation for every cell of S: update the row found by
\* (cell_id, prompt_name, prompt_version), else insert it.
upsert_cell_generation(cg, S, st) == [c \in AllCells |-> IF c \in S THEN st ELSE cg[c]]

\* lines 272-339: the status precondition, the chunk's cells, the filter.
GenStart(w, t) ==
    /\ t.type = "gen"
    /\ Receives(w, t)
    /\ queue' = Dequeue(queue, t)
    /\ LET r == Begin(t, "G_llm", status)
           wanted == WantedCells(t.level, t.a, t.b)
       IN IF status \notin {GENERATING_EXAMPLES, DONE} \/ t.level > nLevels
          THEN wk' = [wk EXCEPT ![w] = End(r, "app_error")]
          ELSE IF wanted = {}
          THEN wk' = [wk EXCEPT ![w] = End(r, "skipped")]
          ELSE wk' = [wk EXCEPT ![w] = [r EXCEPT !.wanted = wanted, !.calls = 1]]
    /\ UNCHANGED <<db, rowLock, lastWrite, seen, dups, pdfGood, callers, pure, upserts, services>>

\* lines 360-371: the first result fails _validate_batch_result; the LLM is
\* called once more with __REPAIR_INSTRUCTIONS__.  calls counts the
\* llm_generate_structured calls of the run.
GenRepair(w) ==
    /\ At(w, "G_llm")
    /\ wk[w].calls = 1
    /\ wk' = [wk EXCEPT ![w].calls = 2]
    /\ UNCHANGED <<db, rowLock, lastWrite, broker, pdfGood, callers, pure, upserts, services>>

\* lines 352-375 and 404-440: the LLM result passes validation (at once or
\* after the repair call); SUCCESS rows are upserted for the wanted cells and
\* committed.
GenPersist(w) ==
    /\ At(w, "G_llm")
    /\ cellGen' = upsert_cell_generation(cellGen, wk[w].wanted, "SUCCESS")
    /\ wk' = [wk EXCEPT ![w] = End(@, "ok")]
    /\ UNCHANGED <<status, errMsg, artifacts, parseRuns, nLevels, nComps, cells, pdfPath,
                   rowLock, lastWrite, broker, pdfGood, callers, pure, upserts, services>>

\* lines 376-401: validation failed twice; FAILED rows are upserted for the
\* wanted cells and committed, then AppError is raised.
GenInvalid(w) ==
    /\ At(w, "G_llm")
    /\ wk[w].calls = 2
    /\ cellGen' = upsert_cell_generation(cellGen, wk[w].wanted, "FAILED")
    /\ wk' = [wk EXCEPT ![w] = End(@, "app_error")]
    /\ UNCHANGED <<status, errMsg, artifacts, parseRuns, nLevels, nComps, cells, pdfPath,
                   rowLock, lastWrite, broker, pdfGood, callers, pure, upserts, services>>

\* lines 378-394, `except Exception: self.db.rollback()`: validation failed
\* twice and writing the FAILED rows raises; nothing is written and AppError
\* is raised all the same.
GenInvalidUnrecorded(w) ==
    /\ At(w, "G_llm")
    /\ wk[w].calls = 2
    /\ wk' = [wk EXCEPT ![w] = End(@, "app_error")]
    /\ UNCHANGED <<db, rowLock, lastWrite, broker, pdfGood, callers, pure, upserts, services>>

\* lines 352-371 and 442-444: llm_generate_structured raises an LLMError in
\* the first or the repair call, or the SUCCESS rows cannot be written and
\* are rolled back; nothing is written and the task retries.
GenError(w) ==
    /\ At(w, "G_llm")
    /\ Retry(queue, wk[w].task)
    /\ wk' = [wk EXCEPT ![w] = End(@, "error")]
    /\ UNCHANGED <<db, rowLock, lastWrite, seen, pdfGood, callers, pure, upserts, services>>

\* ---------------------------------------------------------------- finalize
CountRows == Cardinality({ c \in AllCells : cellGen[c] # "none" })
CountSuccess == Cardinality({ c \in AllCells : cellGen[c] = "SUCCESS" })

finalize_decision_NoCellGuard(total_cells, total_rows, success) ==
    IF total_rows >= total_cells
    THEN IF Max(0, total_rows - success) > 0 THEN FAILED_GENERATION ELSE DONE
    ELSE ""

\* finalize_phase4, lines 492-496: "" when no terminal status is decided.
finalize_decision(total_cells, total_rows, success) ==
    IF total_cells > 0 /\ total_rows >= total_cells
    THEN IF Max(0, total_rows - success) > 0 THEN FAILED_GENERATION ELSE DONE
    ELSE ""

\* finalize_generation_task, lines 215-222: return on DONE or
\* FAILED_GENERATION, else self.retry.
FinalizeReturns(st) == st \in {DONE, FAILED_GENERATION}

finalize_fast_return_DoneOnly(st) == st = DONE

\* finalize_phase4, lines 461-468: the statuses of the terminal fast-return.
finalize_fast_return(st) ==
    st \in {DONE, FAILED_GENERATION, FAILED_PARSE, FAILED_BAD_PDF}

\* finalize_phase4, lines 452-468: load the guide; terminal fast-return.
FinalizeStart(w) ==
    /\ Receives(w, T_finalize)
    /\ LET r == Begin(T_finalize, "F_count", status) IN
        IF finalize_fast_return(status)
        THEN /\ wk' = [wk EXCEPT ![w] = [End(r, "ok") EXCEPT !.rstatus = status]]
             /\ IF FinalizeReturns(status)
                THEN /\ queue' = Dequeue(queue, T_finalize)
                     /\ dups' = dups
                ELSE Retry(Dequeue(queue, T_finalize), T_finalize)
        ELSE /\ wk' = [wk EXCEPT ![w] = r]
             /\ queue' = Dequeue(queue, T_finalize)
             /\ dups' = dups
    /\ UNCHANGED <<db, rowLock, lastWrite, seen, pdfGood, callers, pure, upserts, services>>

\* lines 470-515: count cells, rows and SUCCESS rows; write the terminal
\* status with update_status and commit, or return the status read at entry.
FinalizeCount(w) ==
    /\ At(w, "F_count")
    /\ LET final == finalize_decision(Cardinality(cells), CountRows, CountSuccess) IN
        IF final # ""
        THEN /\ rowLock = NoLock
             /\ SetStatusTo(update_status(status, final))
             /\ lastWrite' = <<status, update_status(status, final)>>
             /\ wk' = [wk EXCEPT ![w] = [End(@, "ok") EXCEPT !.rstatus = final]]
             /\ UNCHANGED <<queue, dups>>
        ELSE /\ UNCHANGED <<db, lastWrite>>
             /\ wk' = [wk EXCEPT ![w] = [End(@, "ok") EXCEPT !.rstatus = wk[w].snap]]
             /\ IF FinalizeReturns(wk[w].snap)
                THEN UNCHANGED <<queue, dups>>
                ELSE Retry(queue, T_finalize)
    /\ UNCHANGED <<rowLock, seen, pdfGood, callers, pure, upserts, services>>

\* -------------------------------------------------------------------- Next
Next ==
    \/ Upload
    \/ \E t \in Tasks : Redeliver(t)
    \/ \E w \in Workers :
        \/ Return(w)
        \/ ExtractStart(w)
        \/ ExtractCommit(w)
        \/ ExtractFail(w)
        \/ ExtractAfter(w)
        \/ ParseStart(w)
        \/ ParseClaim(w)
        \/ ParseFetchFail(w)
        \/ \E p \in ParsedChoices : ParsePersist(w, p)
        \/ ParseFail(w)
        \/ ParseFailUnrecorded(w)
        \/ ParseAfter(w)
        \/ KickoffStart(w)
        \/ KickoffClaim(w)
        \/ KickoffEnqueue(w)
        \/ \E t \in Tasks : GenStart(w, t)
        \/ GenPersist(w)
        \/ GenRepair(w)
        \/ GenInvalid(w)
        \/ GenInvalidUnrecorded(w)
        \/ GenError(w)
        \/ FinalizeStart(w)
        \/ FinalizeCount(w)

Spec == Init /\ [][Next]_vars


\* ------------------------------------------------- duplicate kickoff alone
\* The guide as parse_matrix leaves it: MATRIX_PARSED with the matrix p
\* stored and kickoff_generation_task sent.
AfterParse(p) ==
    /\ rowLock = NoLock
    /\ errMsg = "none"
    /\ artifacts = {"PDF_TEXT", "MATRIX_JSON"}
    /\ parseRuns = <<"EXTRACT_SUCCESS", "PARSE_SUCCESS">>
    /\ nLevels = p.nl
    /\ nComps = p.nc
    /\ cells = p.cells
    /\ cellGen = [c \in AllCells |-> "none"]
    /\ pdfPath = stored_path
    /\ dups = 0
    /\ wk = [w \in Workers |-> Idle]
    /\ pdfGood = TRUE
    /\ CallersIdle
    /\ PureIdle

InitKickoff ==
    /\ \E p \in ParsedChoices : AfterParse(p)
    /\ status = MATRIX_PARSED
    /\ lastWrite = <<PARSING_MATRIX, MATRIX_PARSED>>
    /\ queue = [t \in Tasks |-> IF t = T_kickoff THEN 1 ELSE 0]
    /\ seen = {T_extract, T_parse, T_kickoff}

NextKickoff ==
    \/ Redeliver(T_kickoff)
    \/ \E w \in Workers :
        \/ Return(w)
        \/ KickoffStart(w)
        \/ KickoffClaim(w)
        \/ KickoffEnqueue(w)

SpecKickoff == InitKickoff /\ [][NextKickoff]_vars

\* ------------------------------------------------ the generate phase alone
\* The guide as start_phase4 leaves it: GENERATING_EXAMPLES, one
\* generate_cells_task per (level, range) and one finalize task sent.
InitGenerate ==
    /\ \E p \in ParsedChoices : p.nl > 0 /\ p.nc > 0 /\ AfterParse(p)
    /\ status = GENERATING_EXAMPLES
    /\ lastWrite = <<MATRIX_PARSED, GENERATING_EXAMPLES>>
    /\ queue = [t \in Tasks |->
                  IF t \in FanOut(nLevels, nComps) \cup {T_finalize} THEN 1 ELSE 0]
    /\ seen = {T_extract, T_parse, T_kickoff, T_finalize} \cup FanOut(nLevels, nComps)

NextGenerate ==
    \/ \E t \in Tasks : t.type \in {"gen", "finalize"} /\ Redeliver(t)
    \/ \E w \in Workers :
        \/ Return(w)
        \/ \E t \in Tasks : GenStart(w, t)
        \/ GenPersist(w)
        \/ GenRepair(w)
        \/ GenInvalid(w)
        \/ GenInvalidUnrecorded(w)
        \/ GenError(w)
        \/ FinalizeStart(w)
        \/ FinalizeCount(w)

SpecGenerate == InitGenerate /\ [][NextGenerate]_vars


\* ------------------------------------------------------------------ claims
\* The run of worker w takes this step.
Steps(w) == wk'[w] # wk[w]

\* C2: once the committed status is one of the four terminal values, no task,
\* task retry or duplicate delivery changes it.
C2_TerminalIsFinal == [][(status \in Terminal) => (status' = status)]_vars

\* C3: every UPDATE of guide.status is an edge of the transition table; no
\* status is skipped, reverted or re-entered.
C3_OnlyLegalTransitions == lastWrite = <<>> \/ lastWrite \in LegalTransitions

\* C4: the work of a phase is done only by the delivery that won the phase's
\* claim, so with duplicate or concurrent deliveries at most one worker does
\* the extract work and at most one the parse work.
C4_OneWorkerPerPhase ==
    /\ Cardinality({ w \in Workers : wk[w].pc = "E_work" }) <= 1
    /\ Cardinality({ w \in Workers : wk[w].pc = "P_llm" }) <= 1
    /\ \A w \in Workers : wk[w].pc = "E_work" => wk[w].snap = QUEUED
    /\ \A w \in Workers : wk[w].pc = "P_llm" => wk[w].claimed

\* C5: the status is DONE only while every cell of the guide has a SUCCESS
\* CellGeneration row.
C5_DoneMeansAllSuccess == status = DONE => CountSuccess = Cardinality(cells)

\* C6: of any number of kickoff deliveries from MATRIX_PARSED exactly one
\* claims and sends the fan-out and the one finalize task; every other
\* delivery sends nothing and returns GENERATING_EXAMPLES with
\* tasks_enqueued 0.
C6_DuplicateKickoff ==
    /\ \A t \in Tasks : t.type \in {"gen", "finalize"} => queue[t] <= 1
    /\ (queue[T_kickoff] = 0 /\ \A w \in Workers : wk[w].pc = "idle")
          => \A t \in FanOut(nLevels, nComps) \cup {T_finalize} : queue[t] = 1
    /\ \A w \in Workers :
          (wk[w].pc = "return" /\ ~wk[w].claimed)
             => /\ wk[w].res = "ok"
                /\ wk[w].rstatus = GENERATING_EXAMPLES
                /\ wk[w].enq = 0

\* The statuses that show the extract phase, or the parse phase, completed.
ExtractCompleted == Statuses \ {QUEUED, EXTRACTING_TEXT}
ParseCompleted == { MATRIX_PARSED, GENERATING_EXAMPLES, DONE, FAILED_PARSE, FAILED_GENERATION }

\* C7: an extract task delivered after the extract phase completed changes
\* nothing in the database and returns the status it found.
C7_ExtractReplayNoop ==
    [][\A w \in Workers :
          (wk[w].task = T_extract /\ wk[w].snap \in ExtractCompleted /\ Steps(w))
             => /\ db' = db
                /\ wk'[w].pc = "return" => wk'[w].rstatus = wk[w].snap]_vars

\* C8: a parse task delivered after the parse phase completed makes no LLM
\* call, changes nothing in the database and returns the prior outcome: the
\* stored matrix, or an error when the phase had failed.
C8_ParseReplayNoop ==
    [][\A w \in Workers :
          (wk[w].task = T_parse /\ wk[w].snap \in ParseCompleted /\ Steps(w))
             => /\ db' = db
                /\ wk'[w].pc # "P_llm"
                /\ wk'[w].pc = "return" =>
                      IF wk[w].snap = FAILED_PARSE
                      THEN wk'[w].res \in {"error", "app_error"}
                      ELSE wk'[w].res = "parsed"]_vars

\* Worker w receives a chunk task in this step.
GenReceived(w) == wk[w].pc = "idle" /\ wk'[w].task.type = "gen"

\* All of the chunk's cells hold SUCCESS rows.
ChunkComplete(t) ==
    /\ ChunkCells(t.level, t.a, t.b) # {}
    /\ \A c \in ChunkCells(t.level, t.a, t.b) : cellGen[c] = "SUCCESS"

\* C9 as stated: a chunk task delivered when all its cells hold SUCCESS makes
\* no LLM call, writes nothing and returns success, whatever the guide status.
C9_ReplaySkips ==
    [][\A w \in Workers :
          (GenReceived(w) /\ ChunkComplete(wk'[w].task))
             => /\ db' = db
                /\ wk'[w].pc = "return"
                /\ wk'[w].res = "skipped"]_vars

\* C9: a chunk task delivered when all its cells hold SUCCESS makes no LLM
\* call and writes nothing; it returns success when the status is
\* GENERATING_EXAMPLES or DONE and an error otherwise.  In general the cells
\* sent to the LLM and written are the chunk's cells without SUCCESS rows.
C9_ReplaySkipsWhenGenerating ==
    [][\A w \in Workers :
          /\ GenReceived(w) =>
                LET t == wk'[w].task IN
                /\ db' = db
                /\ wk'[w].wanted \subseteq
                      { c \in ChunkCells(t.level, t.a, t.b) : cellGen[c] # "SUCCESS" }
                /\ ChunkComplete(t) =>
                      /\ wk'[w].pc = "return"
                      /\ wk'[w].res = IF status \in {GENERATING_EXAMPLES, DONE}
                                      THEN "skipped" ELSE "app_error"
          /\ (wk[w].pc = "G_llm" /\ Steps(w)) =>
                \A c \in AllCells \ wk[w].wanted : cellGen'[c] = cellGen[c]]_vars

C9_Witness ==
    \E w \in Workers :
        /\ wk[w].pc = "return"
        /\ wk[w].task.type = "gen"
        /\ wk[w].res = "skipped"
        /\ wk[w].snap = DONE
        /\ ChunkComplete(wk[w].task)

\* C10: the phases run in order: no parse work before an extract committed
\* TEXT_EXTRACTED, no fan-out before a parse committed MATRIX_PARSED, no DONE
\* or FAILED_GENERATION before the kickoff; and once a later phase has
\* started no earlier phase executes again.
C10_PhasesInOrder ==
    /\ \A w \in Workers :
          wk[w].pc = "P_llm" => "EXTRACT_SUCCESS" \in Range(parseRuns)
    /\ (\E t \in seen : t.type = "gen") => "PARSE_SUCCESS" \in Range(parseRuns)
    /\ status \in {DONE, FAILED_GENERATION} => T_finalize \in seen
    /\ \A w \in Workers :
          wk[w].pc = "E_work" =>
             wk[w].snap \in {QUEUED, EXTRACTING_TEXT, TEXT_EXTRACTED, FAILED_BAD_PDF}
    /\ \A w \in Workers :
          wk[w].pc = "P_llm" => ~ \E t \in seen : t.type = "gen"


\* ------------------------------------------- finalize's decision on its own
\* finalize_phase4 on a guide in GENERATING_EXAMPLES whose three counts are
\* total_cells, total_rows and success.
Counts == 0..MaxCount

InitFinalizeDecision ==
    /\ PipelineIdle
    /\ ServicesIdle
    /\ CallersIdle
    /\ UpsertsIdle
    /\ status = GENERATING_EXAMPLES
    /\ fnArgs \in Counts \X Counts \X Counts
    /\ fnRes = <<>>

FinalizeDecide ==
    /\ fnRes = <<>>
    /\ fnRes' = <<finalize_decision(fnArgs[1], fnArgs[2], fnArgs[3])>>
    /\ UNCHANGED <<db, rowLock, lastWrite, broker, wk, pdfGood, callers, fnArgs, upserts, services>>

SpecFinalizeDecision == InitFinalizeDecision /\ [][FinalizeDecide]_vars

FinalizeReceived(w) == wk[w].pc = "idle" /\ wk'[w].task = T_finalize

\* C12: finalize_phase4 on a guide whose status is terminal returns that
\* status at once and leaves the guide row and the CellGeneration rows as
\* they are, however often it is called.
C12_FinalizeTerminalNoop ==
    [][\A w \in Workers :
          (FinalizeReceived(w) /\ status \in Terminal)
             => /\ db' = db
                /\ lastWrite' = lastWrite
                /\ wk'[w].pc = "return"
                /\ wk'[w].res = "ok"
                /\ wk'[w].rstatus = status]_vars

C12_Witness ==
    \E w \in Workers :
        /\ wk[w].pc = "return"
        /\ wk[w].task = T_finalize
        /\ wk[w].snap = FAILED_GENERATION
        /\ wk[w].rstatus = FAILED_GENERATION
        /\ status = FAILED_GENERATION


\* ------------------------------------------------ the fan-out on its own
\* start_phase4, lines 228-238, for fnArgs = <<|levels|, |competencies|>>:
\* first the ranges, then the messages.
InitFanOut ==
    /\ PipelineIdle
    /\ ServicesIdle
    /\ CallersIdle
    /\ UpsertsIdle
    /\ status = GENERATING_EXAMPLES
    /\ fnArgs \in (1..MaxFanLevels) \X (1..MaxN)
    /\ fnRes = <<>>

ComputeRanges ==
    /\ fnRes = <<>>
    /\ fnRes' = <<_chunk_ranges(fnArgs[2], effective_chunk_size(fnArgs[2]))>>
    /\ UNCHANGED <<db, rowLock, lastWrite, broker, wk, pdfGood, callers, fnArgs, upserts, services>>

SendTasks ==
    /\ Len(fnRes) = 1
    /\ fnRes' = <<fnRes[1], SentTasks(fnArgs[1], fnRes[1])>>
    /\ UNCHANGED <<db, rowLock, lastWrite, broker, wk, pdfGood, callers, fnArgs, upserts, services>>

NextFanOut == ComputeRanges \/ SendTasks

SpecFanOut == InitFanOut /\ [][NextFanOut]_vars

\* C13: for n competencies and any number of levels the chunk size is
\* k = 6 if n > 8 else n; the ranges are (0,k),(k,2k),..., contiguous,
\* disjoint, of length at most k and covering [0,n); one task is sent per
\* (level, range), |levels| x ceil(n/k) in all, and every (level, competency
\* index) lies in exactly one sent task.
C13_FanOutPartition ==
    LET nl == fnArgs[1]
        n == fnArgs[2]
        k == IF n > 8 THEN 6 ELSE n
        r == fnRes[1]
        ts == fnRes[2]
    IN /\ Len(fnRes) >= 1 =>
            /\ Len(r) = (n + k - 1) \div k
            /\ r[1][1] = 0
            /\ r[Len(r)][2] = n
            /\ \A i \in 1..Len(r) :
                  /\ r[i][1] = (i - 1) * k
                  /\ r[i][1] < r[i][2]
                  /\ r[i][2] - r[i][1] <= k
                  /\ i < Len(r) => r[i][2] = r[i + 1][1]
       /\ Len(fnRes) = 2 =>
            /\ Len(ts) = nl * ((n + k - 1) \div k)
            /\ \A l \in 1..nl, i \in 1..Len(r) :
                  Cardinality({ j \in 1..Len(ts) :
                      ts[j] = GenTask(l, r[i][1], r[i][2]) }) = 1
            /\ \A l \in 1..nl, c \in 0..(n - 1) :
                  Cardinality({ j \in 1..Len(ts) :
                      ts[j].level = l /\ ts[j].a <= c /\ c < ts[j].b }) = 1

C13_Witness ==
    /\ fnArgs = <<3, 13>>
    /\ Len(fnRes) = 2
    /\ fnRes[1] = << <<0, 6>>, <<6, 12>>, <<12, 13>> >>
    /\ Len(fnRes[2]) = 9


\* --------------------------------- upsert_cell_generation under concurrency
\* Sessions run upsert_cell_generation for one (cell_id, prompt_name,
\* prompt_version) and commit, as generate_level_chunk does.
InitUpsert ==
    /\ PipelineIdle
    /\ ServicesIdle
    /\ CallersIdle
    /\ status = GENERATING_EXAMPLES
    /\ fnArgs = <<>>
    /\ fnRes = <<>>
    /\ uRows \in {<<>>, <<"SUCCESS">>, <<"FAILED">>}
    /\ uPc \in [Callers -> {"select", "absent"}]
    /\ \E c \in Callers : uPc[c] = "select"
    /\ uSaw = [c \in Callers |-> FALSE]
    /\ uSt \in [Callers -> {"SUCCESS", "FAILED"}]
    /\ uPend = [c \in Callers |-> "none"]

uq_cellgen_cell_prompt_ver_Absent(rows) == TRUE

\* UniqueConstraint("cell_id", "prompt_name", "prompt_version"): an INSERT
\* of the key is accepted only if no committed row has it.
uq_cellgen_cell_prompt_ver(rows) == Len(rows) = 0

\* Another session holds a flushed, uncommitted write of the key: an INSERT
\* or UPDATE of the same key waits for it.
KeyBusy(c) == \E d \in Callers \ {c} : uPend[d] # "none"

UpsertFrame == UNCHANGED <<db, rowLock, lastWrite, broker, wk, pdfGood, callers, pure, services>>

\* lines 23-31: SELECT ... .first(), reading the committed rows.
UpsertSelect(c) ==
    /\ uPc[c] = "select"
    /\ uSaw' = [uSaw EXCEPT ![c] = Len(uRows) > 0]
    /\ uPc' = [uPc EXCEPT ![c] = "write"]
    /\ UNCHANGED <<uRows, uSt, uPend>>
    /\ UpsertFrame

\* lines 33-40: the row exists: set its columns and flush the UPDATE.
UpsertUpdate(c) ==
    /\ uPc[c] = "write"
    /\ uSaw[c]
    /\ ~KeyBusy(c)
    /\ uPend' = [uPend EXCEPT ![c] = "update"]
    /\ uPc' = [uPc EXCEPT ![c] = "commit"]
    /\ UNCHANGED <<uRows, uSaw, uSt>>
    /\ UpsertFrame

\* lines 42-57: no row was found: add the row and flush the INSERT, which
\* the unique constraint rejects with an IntegrityError when a committed row
\* has the key.
UpsertInsert(c) ==
    /\ uPc[c] = "write"
    /\ ~uSaw[c]
    /\ ~KeyBusy(c)
    /\ IF uq_cellgen_cell_prompt_ver(uRows)
       THEN /\ uPend' = [uPend EXCEPT ![c] = "insert"]
            /\ uPc' = [uPc EXCEPT ![c] = "commit"]
       ELSE /\ uPc' = [uPc EXCEPT ![c] = "error"]
            /\ UNCHANGED uPend
    /\ UNCHANGED <<uRows, uSaw, uSt>>
    /\ UpsertFrame

\* generate_level_chunk, self.db.commit().
UpsertCommit(c) ==
    /\ uPc[c] = "commit"
    /\ uRows' = IF uPend[c] = "insert"
                THEN Append(uRows, uSt[c])
                ELSE [uRows EXCEPT ![1] = uSt[c]]
    /\ uPend' = [uPend EXCEPT ![c] = "none"]
    /\ uPc' = [uPc EXCEPT ![c] = "done"]
    /\ UNCHANGED <<uSaw, uSt>>
    /\ UpsertFrame

\* The session is rolled back before its commit (a later statement of the
\* chunk raised, or the worker was lost).
UpsertRollback(c) ==
    /\ uPc[c] = "commit"
    /\ uPend' = [uPend EXCEPT ![c] = "none"]
    /\ uPc' = [uPc EXCEPT ![c] = "error"]
    /\ UNCHANGED <<uRows, uSaw, uSt>>
    /\ UpsertFrame

NextUpsert ==
    \E c \in Callers :
        \/ UpsertSelect(c)
        \/ UpsertUpdate(c)
        \/ UpsertInsert(c)
        \/ UpsertCommit(c)
        \/ UpsertRollback(c)

SpecUpsert == InitUpsert /\ [][NextUpsert]_vars

\* C14: at most one CellGeneration row exists for a key, also when two
\* sessions upsert the key concurrently and both found no row.
C14_OneRowPerKey ==
    Len(uRows) + Cardinality({ c \in Callers : uPend[c] = "insert" }) <= 1

C14_Witness ==
    \E c, d \in Callers :
        /\ c # d
        /\ ~uSaw[c] /\ ~uSaw[d]
        /\ uPc[c] = "done"
        /\ uPc[d] = "error"
        /\ Len(uRows) = 1


\* ------------------------------------------------ the extract quality gate
\* score_extraction: confidence in hundredths.  The text enters through its
\* char_count, whether its printable ratio is below 0.85, and whether the
\* matrix and table signal patterns match it.
score_extraction(char_count, pages_with_text, low_printable, has_matrix_signals, has_table_signals) ==
    LET is_scanned_likely == pages_with_text = 0 \/ char_count < 200
        is_garbled_likely == char_count > 0 /\ low_printable
        c0 == IF char_count < 800 \/ pages_with_text = 0 THEN 10
              ELSE IF char_count <= 2500 THEN 40
              ELSE 80
        c1 == IF has_matrix_signals /\ char_count > 2500 THEN Min(95, c0 + 15)
              ELSE IF has_matrix_signals THEN Min(85, c0 + 10)
              ELSE c0
        c2 == IF is_garbled_likely THEN Max(5, c1 - 25) ELSE c1
        c3 == IF has_table_signals THEN Min(95, c2 + 5) ELSE c2
        c4 == IF is_scanned_likely THEN Min(c3, 10) ELSE c3
    IN [confidence |-> c4,
        is_scanned_likely |-> is_scanned_likely,
        is_garbled_likely |-> is_garbled_likely]

is_bad_pdf_ScannedOnly(quality) == quality.is_scanned_likely

\* extract_pdf_text, line 164:
\* quality.is_scanned_likely or quality.confidence < 0.20
is_bad_pdf(quality) == quality.is_scanned_likely \/ quality.confidence < 20

\* Text sizes around the limits 200, 800 and 2500 of score_extraction.
CharCounts == {0, 199, 200, 799, 800, 2500, 2501}

QualityOf(a) == score_extraction(a[1], a[2], a[3], a[4], a[5])

\* An extract run that has loaded the QUEUED guide and is about to score the
\* text fnArgs describes.
InitQuality ==
    /\ CallersIdle
    /\ ServicesIdle
    /\ UpsertsIdle
    /\ fnArgs \in CharCounts \X (0..1) \X BOOLEAN \X BOOLEAN \X BOOLEAN
    /\ fnArgs[1] = 0 => ~fnArgs[4] /\ ~fnArgs[5]
    /\ fnRes = <<>>
    /\ status = QUEUED
    /\ rowLock = 1
    /\ lastWrite = <<QUEUED, EXTRACTING_TEXT>>
    /\ errMsg = "none"
    /\ artifacts = {}
    /\ parseRuns = <<>>
    /\ nLevels = 0
    /\ nComps = 0
    /\ cells = {}
    /\ cellGen = [c \in AllCells |-> "none"]
    /\ pdfPath = stored_path
    /\ queue = [t \in Tasks |-> 0]
    /\ seen = {T_extract}
    /\ dups = 0
    /\ wk = [w \in Workers |-> IF w = 1 THEN Begin(T_extract, "E_work", QUEUED) ELSE Idle]
    /\ pdfGood = ~is_bad_pdf(QualityOf(fnArgs))

NextQuality ==
    \E w \in Workers :
        \/ ExtractCommit(w)
        \/ ExtractAfter(w)
        \/ Return(w)

SpecQuality == InitQuality /\ [][NextQuality]_vars

\* The extract run of worker 1 has committed.
ExtractCommitted == wk[1].task = T_extract /\ wk[1].pc \in {"E_after", "return"}

\* C15: a completed extract commits FAILED_BAD_PDF iff the text is likely
\* scanned or its confidence is below 0.20, and TEXT_EXTRACTED otherwise; on
\* FAILED_BAD_PDF one FAILED extract ParseRun with the scanned/empty message
\* is appended and no parse is sent.  No page with text and no character
\* give confidence 0.10 and FAILED_BAD_PDF.
C15_QualityThreshold ==
    LET q == QualityOf(fnArgs)
        scanned == fnArgs[2] = 0 \/ fnArgs[1] < 200
    IN /\ ExtractCommitted =>
            /\ status = FAILED_BAD_PDF <=> (scanned \/ q.confidence < 20)
            /\ status = TEXT_EXTRACTED <=> ~(scanned \/ q.confidence < 20)
            /\ Len(parseRuns) = 1
            /\ status = FAILED_BAD_PDF =>
                  /\ parseRuns = <<"EXTRACT_FAILED">>
                  /\ errMsg = "bad_pdf"
                  /\ queue[T_parse] = 0
            /\ status = TEXT_EXTRACTED => parseRuns = <<"EXTRACT_SUCCESS">>
       /\ (fnArgs[1] = 0 /\ fnArgs[2] = 0) =>
            /\ q.confidence = 10
            /\ ExtractCommitted => status = FAILED_BAD_PDF

C15_Witness ==
    /\ ExtractCommitted
    /\ fnArgs[1] = 799
    /\ fnArgs[2] = 1
    /\ QualityOf(fnArgs).confidence = 10
    /\ status = FAILED_BAD_PDF
    /\ parseRuns = <<"EXTRACT_FAILED">>

\* ------------------------------------------------------------------ parse
\* The guide after a successful extract: TEXT_EXTRACTED, the text stored,
\* parse_matrix_task sent once.
InitParse ==
    /\ rowLock = NoLock
    /\ status = TEXT_EXTRACTED
    /\ lastWrite = <<EXTRACTING_TEXT, TEXT_EXTRACTED>>
    /\ errMsg = "none"
    /\ artifacts = {"PDF_TEXT"}
    /\ parseRuns = <<"EXTRACT_SUCCESS">>
    /\ nLevels = 0
    /\ nComps = 0
    /\ cells = {}
    /\ cellGen = [c \in AllCells |-> "none"]
    /\ pdfPath = stored_path
    /\ queue = [t \in Tasks |-> IF t = T_parse THEN 1 ELSE 0]
    /\ seen = {T_extract, T_parse}
    /\ dups = 0
    /\ wk = [w \in Workers |-> Idle]
    /\ pdfGood = TRUE
    /\ CallersIdle
    /\ PureIdle

NextParse ==
    \/ Redeliver(T_parse)
    \/ \E w \in Workers :
        \/ Return(w)
        \/ ParseStart(w)
        \/ ParseClaim(w)
        \/ ParseFetchFail(w)
        \/ \E p \in ParsedChoices : ParsePersist(w, p)
        \/ ParseFail(w)
        \/ ParseFailUnrecorded(w)
        \/ ParseAfter(w)

SpecParse == InitParse /\ [][NextParse]_vars

\* Worker w leaves parse_matrix through one of its two `except Exception`
\* handlers (LLM call or persistence), the first exception re-raised.
ParseRaises(w) ==
    /\ wk[w].pc = "P_llm"
    /\ wk'[w].pc = "return"
    /\ wk'[w].res = "error"

\* The attempt left no MATRIX_JSON artifact, level, competency or cell.
NoMatrixWrites == UNCHANGED <<artifacts, nLevels, nComps, cells>>

\* C16 as stated: whenever the LLM call or the persistence step raises after
\* the claim, the attempt's matrix writes are not persisted, exactly one
\* FAILED ParseRun is appended, the status is FAILED_PARSE and the exception
\* is re-raised.
C16_ParseFailureRecorded ==
    [][\A w \in Workers : ParseRaises(w) =>
        /\ NoMatrixWrites
        /\ parseRuns' = Append(parseRuns, "PARSE_FAILED")
        /\ errMsg' = "parse_error"
        /\ status' = FAILED_PARSE]_vars

\* What the two handlers guarantee in every case: the attempt's matrix writes
\* are rolled back, and either the FAILED ParseRun and FAILED_PARSE are
\* committed together or neither is.
ParseFailureRecordedOrNothing ==
    [][\A w \in Workers : ParseRaises(w) =>
        /\ NoMatrixWrites
        /\ \/ /\ parseRuns' = Append(parseRuns, "PARSE_FAILED")
              /\ errMsg' = "parse_error"
              /\ status' = FAILED_PARSE
           \/ UNCHANGED <<parseRuns, errMsg, status>>]_vars

\* Worker w takes a step of generate_level_chunk after its wanted cells were
\* selected.
GenSteps(w) == wk[w].pc = "G_llm" /\ Steps(w)

\* The step is the second validation failure: AppError leaves the run.
GenFailsTwice(w) == GenSteps(w) /\ wk'[w].res = "app_error"

\* What holds of the repair in every case: a failed first validation is
\* followed by exactly one more LLM call and never a third; a result that
\* passes is persisted as SUCCESS for every wanted cell; a run that fails
\* validation twice gives no cell SUCCESS.
GenRepairOnce ==
    [][\A w \in Workers : GenSteps(w) =>
        /\ wk'[w].calls \in {wk[w].calls, wk[w].calls + 1}
        /\ wk'[w].calls <= 2
        /\ wk'[w].calls # wk[w].calls => (wk'[w].pc = "G_llm" /\ db' = db)
        /\ wk'[w].res = "ok" => \A c \in wk[w].wanted : cellGen'[c] = "SUCCESS"
        /\ GenFailsTwice(w) =>
              /\ wk[w].calls = 2
              /\ \A c \in AllCells : cellGen'[c] = "SUCCESS" => cellGen[c] = "SUCCESS"]_vars

\* C17: when the first result fails validation exactly one repair call is
\* made (GenRepairOnce); when the second result fails as well, every wanted
\* cell of the chunk ends with a FAILED row and none receives SUCCESS.
C17_SecondFailureMarksFailed ==
    [][\A w \in Workers : GenFailsTwice(w) =>
        /\ wk[w].calls = 2
        /\ \A c \in wk[w].wanted : cellGen'[c] = "FAILED"
        /\ \A c \in AllCells : cellGen'[c] = "SUCCESS" => cellGen[c] = "SUCCESS"]_vars

\* generate_level_chunk raises in this step of worker w, after its wanted
\* cells were selected.
GenRaises(w) == GenSteps(w) /\ wk'[w].res \in {"error", "app_error"}

\* parse_matrix raises in this step of worker w, after its claim succeeded.
ParseRaisesAfterClaim(w) ==
    /\ wk[w].pc = "P_llm"
    /\ wk[w].claimed
    /\ wk'[w].pc = "return"
    /\ wk'[w].res \in {"error", "fetch_error"}

\* C18: whenever generate_level_chunk raises after selecting its wanted
\* cells, a FAILED row for every wanted cell is committed before the error
\* propagates; whenever parse_matrix raises after its claim, a FAILED
\* ParseRun is committed before the error propagates.
C18_ErrorsRecordedBeforeRaise ==
    [][\A w \in Workers :
        /\ GenRaises(w) => \A c \in wk[w].wanted : cellGen'[c] = "FAILED"
        /\ ParseRaisesAfterClaim(w) =>
              parseRuns' = Append(parseRuns, "PARSE_FAILED")]_vars

\* The generation half of C18 alone.
GenErrorsRecorded ==
    [][\A w \in Workers :
        GenRaises(w) => \A c \in wk[w].wanted : cellGen'[c] = "FAILED"]_vars

\* Worker w runs the claim of parse_matrix or start_phase4 in this step and
\* the claim fails.
ClaimFails(w) ==
    /\ wk[w].pc \in {"P_claim", "K_claim"}
    /\ Steps(w)
    /\ ~wk'[w].claimed

\* C19: an executor whose claim fails does no phase work and returns without
\* an error: the prior result when the phase was already completed, a no-op
\* success when another worker holds the phase in progress.
C19_FailedClaimReturnsOk ==
    [][\A w \in Workers : ClaimFails(w) =>
        /\ db' = db
        /\ broker' = broker
        /\ wk'[w].res \in {"ok", "parsed"}]_vars

\* What holds of a failed claim: no phase work in either executor, and a
\* success result from start_phase4.
FailedClaimDoesNoWork ==
    [][\A w \in Workers : ClaimFails(w) =>
        /\ db' = db
        /\ broker' = broker
        /\ wk[w].pc = "K_claim" => wk'[w].res = "ok"]_vars

\* The task whose run takes the step of worker w.
RunTask(w) == IF wk[w].pc = "idle" THEN wk'[w].task ELSE wk[w].task

\* The tail of the task function: the status was read back and the run ends.
TaskTail(w, pc) == wk[w].pc = pc /\ wk'[w].pc = "return"

\* Messages of task t added to the queue in this step.
Sent(t) == queue'[t] - queue[t]

\* A run of task `from` sends `to` once, in its tail, when the status read
\* back is st, and in no other step.
ChainsOnceIff(w, from, tail, st, to) ==
    (Steps(w) /\ RunTask(w) = from) =>
        /\ Sent(to) = IF TaskTail(w, tail) /\ status = st THEN 1 ELSE 0
        /\ \A t \in Tasks \ {from, to} : Sent(t) = 0

\* Worker w takes a step of a generate_cells_task run.
GenRun(w) == Steps(w) /\ RunTask(w) \in Tasks /\ RunTask(w).type = "gen"

TaskTypes == {"extract", "parse", "kickoff", "gen", "finalize"}

\* max_retries of the @celery_app.task decorators.
max_retries(task) ==
    CASE task = "extract" -> 5
      [] task = "parse" -> 5
      [] task = "kickoff" -> 3
      [] task = "gen" -> 3
      [] task = "finalize" -> 240

\* The task function has `except AppError` and `except Exception` clauses;
\* finalize_generation_task has only `try ... finally`.
has_except_clauses(task) == task # "finalize"

\* What the executor hands back to the task function: finalize_phase4 returns
\* the guide's status; the other tasks do not branch on the value for a retry.
ReturnValues(task) == IF task = "finalize" THEN Statuses ELSE {"returned"}

\* self.retry(exc=e): the message is sent again with retries + 1 while
\* retries < max_retries; after that exc is raised and the task has failed.
self_retry(r) ==
    IF r.retries < max_retries(r.task)
    THEN [r EXCEPT !.pc = "queued", !.retries = @ + 1, !.result = "retry"]
    ELSE [r EXCEPT !.pc = "done", !.result = "failed"]

RunnerFrame ==
    UNCHANGED <<db, rowLock, lastWrite, broker, wk, pdfGood, callers, pure, upserts, gw>>

InitRunner ==
    /\ PipelineIdle
    /\ CallersIdle
    /\ FunctionsIdle
    /\ gw = NoCall
    /\ status = QUEUED
    /\ \E t \in TaskTypes :
          run = [task |-> t, pc |-> "queued", retries |-> 0, runs |-> 0,
                 outcome |-> "", result |-> ""]

\* The runner delivers the message and the task function starts.
RunnerDeliver ==
    /\ run.pc = "queued"
    /\ run' = [run EXCEPT !.pc = "running", !.runs = @ + 1, !.outcome = "", !.result = ""]
    /\ RunnerFrame

\* The executor returns.  finalize_generation_task returns on DONE and
\* FAILED_GENERATION and otherwise raises self.retry(exc=Exception("Not done
\* yet")); the other tasks return their result.
ExecutorReturns(st) ==
    /\ run.pc = "running"
    /\ st \in ReturnValues(run.task)
    /\ LET r == [run EXCEPT !.outcome = st] IN
        run' = IF run.task = "finalize" /\ ~FinalizeReturns(st)
               THEN self_retry(r)
               ELSE [r EXCEPT !.pc = "done", !.result = "returned"]
    /\ RunnerFrame

\* The executor raises AppError: `except AppError` returns {ok: False, ...};
\* without the clause the exception leaves the task function.
ExecutorRaisesAppError ==
    /\ run.pc = "running"
    /\ LET r == [run EXCEPT !.outcome = "app_error"] IN
        run' = IF has_except_clauses(run.task)
               THEN [r EXCEPT !.pc = "done", !.result = "structured_failure"]
               ELSE [r EXCEPT !.pc = "done", !.result = "failed"]
    /\ RunnerFrame

\* The executor raises another exception: `except Exception` raises
\* self.retry(exc=e); without the clause the exception leaves the task
\* function.
ExecutorRaises ==
    /\ run.pc = "running"
    /\ LET r == [run EXCEPT !.outcome = "exception"] IN
        run' = IF has_except_clauses(run.task)
               THEN self_retry(r)
               ELSE [r EXCEPT !.pc = "done", !.result = "failed"]
    /\ RunnerFrame

NextRunner ==
    \/ RunnerDeliver
    \/ \E st \in Statuses \cup {"returned"} : ExecutorReturns(st)
    \/ ExecutorRaisesAppError
    \/ ExecutorRaises

SpecRunner == InitRunner /\ [][NextRunner]_vars

\* The run of the task function that ends in this step follows the retry
\* classification: AppError gives a structured failure and no retry, another
\* exception goes to self.retry.
Classified ==
    /\ run'.outcome = "app_error" =>
          (run'.pc = "done" /\ run'.result = "structured_failure")
    /\ run'.outcome = "exception" =>
          run' = self_retry([run EXCEPT !.outcome = "exception"])
    /\ run'.runs <= max_retries(run.task) + 1

\* C21: in each of the five tasks an AppError of the executor ends the task
\* with a structured failure and no retry, any other exception is handed to
\* the retry mechanism, and the task runs at most max_retries + 1 times.
C21_RetryClassification ==
    [][run.pc = "running" => Classified]_vars

\* What holds: the classification in the four tasks with except clauses, the
\* bound on the runs in all five, and in finalize_generation_task a failed
\* task without a retry for either kind of exception.
RetryClassificationOfFour ==
    [][run.pc = "running" =>
        /\ has_except_clauses(run.task) => Classified
        /\ run'.runs <= max_retries(run.task) + 1
        /\ (run.task = "finalize" /\ run'.outcome \in {"app_error", "exception"}) =>
              (run'.pc = "done" /\ run'.result = "failed")]_vars

\* The task function of finalize_generation_task ends in this step, its
\* executor having returned a status.
FinalizeRunEnds ==
    /\ run.task = "finalize"
    /\ run.pc = "running"
    /\ run'.outcome \in Statuses

\* C22: a run of finalize_generation_task requests a retry if and only if
\* finalize returned a non-terminal status and returns without a retry as
\* soon as the guide is terminal; one message is executed at most 241 times.
C22_RetryIffNotTerminal ==
    [][FinalizeRunEnds =>
        /\ run'.runs <= max_retries("finalize") + 1
        /\ IF run'.outcome \in Terminal
           THEN run'.pc = "done" /\ run'.result = "returned"
           ELSE run' = self_retry([run EXCEPT !.outcome = run'.outcome])]_vars

\* What holds of the polling of one finalize message: a retry is requested
\* exactly when the returned status is neither DONE nor FAILED_GENERATION, and
\* the message is executed at most 241 times.
FinalizePollBounded ==
    [][FinalizeRunEnds =>
        /\ run'.runs <= max_retries("finalize") + 1
        /\ IF run'.outcome \in {DONE, FAILED_GENERATION}
           THEN run'.pc = "done" /\ run'.result = "returned"
           ELSE run' = self_retry([run EXCEPT !.outcome = run'.outcome])]_vars

\* ------------------------------------------------------------ LLM gateway
\* One llm_generate_structured invocation made by parse_matrix (step 3),
\* followed through its llm_generate calls and their provider attempts, up to
\* the persistence or the failure handling of parse_matrix.

\* The prompt registry: the keys of PROMPTS.
PROMPTS ==
    { <<"parse_matrix", "v1">>, <<"generate_examples", "v1">>,
      <<"generate_examples_batch", "v1">> }

\* get_prompt: the template of a registered key, else KeyError.
get_prompt(key) == IF key \in PROMPTS THEN "template" ELSE "KeyError"

\* settings.LLM_PROVIDER values tried; only "gemini" is supported.
Providers == {"gemini", "openai"}

\* (prompt_name, prompt_version) values tried.
PromptKeys == { <<"parse_matrix", "v1">>, <<"parse_matrix", "v2">> }

attempts_exhausted_Late(attempt) == attempt >= LLM_MAX_RETRIES + 1

\* llm_generate, line 108: `if attempt >= settings.LLM_MAX_RETRIES: break`.
attempts_exhausted(attempt) == attempt >= LLM_MAX_RETRIES

log_llm_call_Dropped(log, item) == log

\* log_llm_call: one telemetry record is emitted.
log_llm_call(log, item) == Append(log, item)

\* The LLMCallLog fields that vary here.
LLMCallLog(retries, ok, error_type) ==
    [retries |-> retries, ok |-> ok, error_type |-> error_type]

\* A purpose is the sequence of the strings it is concatenated from:
\* purpose + "_repair" of llm_generate_structured is Append(purpose, "_repair").
parse_matrix_purpose == <<"parse_matrix">>

\* llm_generate, lines 45-48: max_tokens for the purpose.
max_tokens(purpose) ==
    IF purpose = parse_matrix_purpose
    THEN Max(LLM_MAX_OUTPUT_TOKENS, 8192)
    ELSE LLM_MAX_OUTPUT_TOKENS

\* llm_generate, lines 51-63: the LLMRequest fields the provider sends on.
LLMRequest(purpose, response_mime_type) ==
    [purpose |-> purpose, model |-> GEMINI_MODEL, temperature |-> LLM_TEMPERATURE,
     max_output_tokens |-> max_tokens(purpose), timeout_seconds |-> LLM_TIMEOUT_SECONDS,
     response_mime_type |-> response_mime_type]

NoRequest == LLMRequest(<<>>, "")

GatewayFrame ==
    UNCHANGED <<db, rowLock, lastWrite, broker, wk, pdfGood, callers, pure, upserts, run>>

\* The gateway invocation at the entry of its first llm_generate call.
\*   call: the llm_generate call of the invocation (1, or 2 for the repair)
\*   repair: the stock __REPAIR_INSTRUCTIONS__ text is in the variables
\*   attempt, retries, tries: loop variable, local counter and provider
\*     attempts of the current llm_generate call
\*   provider_calls, provider_errors: client.generate calls of the invocation
\*   last: outcome of the last provider attempt
\*   log: the telemetry records emitted
\*   result: "" while running, then "ok" or the type of the exception raised
\*   purpose: the purpose argument of the current llm_generate call
\*   req: the LLMRequest of the current llm_generate call
\*   sent: the requests handed to client.generate so far
GatewayStart(provider, key) ==
    [pc |-> "enter", provider |-> provider, prompt |-> key, call |-> 1,
     repair |-> FALSE, attempt |-> 0, retries |-> 0, tries |-> 0,
     provider_calls |-> 0, provider_errors |-> 0, last |-> "", log |-> <<>>,
     result |-> "", purpose |-> parse_matrix_purpose, req |-> NoRequest, sent |-> {}]

\* parse_matrix has claimed PARSING_MATRIX and calls llm_generate_structured.
InitGateway ==
    /\ rowLock = NoLock
    /\ status = PARSING_MATRIX
    /\ lastWrite = <<TEXT_EXTRACTED, PARSING_MATRIX>>
    /\ errMsg = "none"
    /\ artifacts = {"PDF_TEXT"}
    /\ parseRuns = <<"EXTRACT_SUCCESS">>
    /\ nLevels = 0
    /\ nComps = 0
    /\ cells = {}
    /\ cellGen = [c \in AllCells |-> "none"]
    /\ pdfPath = stored_path
    /\ queue = [t \in Tasks |-> 0]
    /\ seen = {T_extract, T_parse}
    /\ dups = 0
    /\ wk = [w \in Workers |->
               IF w = 1
               THEN [Begin(T_parse, "P_llm", TEXT_EXTRACTED) EXCEPT !.claimed = TRUE]
               ELSE Idle]
    /\ pdfGood = TRUE
    /\ CallersIdle
    /\ FunctionsIdle
    /\ run = NoRun
    /\ \E provider \in Providers, key \in PromptKeys : gw = GatewayStart(provider, key)

\* llm_generate, lines 36-72: the provider check, the request, get_prompt and
\* the rendering, before the attempt loop.
GatewayEnter ==
    /\ gw.pc = "enter"
    /\ gw' = IF gw.provider # "gemini"
             THEN [gw EXCEPT !.pc = "done", !.result = "LLMNonRetryableError"]
             ELSE IF get_prompt(gw.prompt) = "KeyError"
             THEN [gw EXCEPT !.pc = "done", !.result = "KeyError"]
             ELSE [gw EXCEPT !.pc = "attempt", !.attempt = 0, !.retries = 0, !.tries = 0,
                             !.req = LLMRequest(gw.purpose, "application/json")]
    /\ GatewayFrame

\* lines 76-102 and 169-185: the provider answers; telemetry ok = True;
\* llm_generate returns and llm_generate_structured parses and validates the
\* text: a valid document is returned, an invalid first one starts the repair
\* call, an invalid second one raises the JSONDecodeError or ValidationError.
ProviderReturns(valid) ==
    /\ gw.pc = "attempt"
    /\ LET g == [gw EXCEPT !.provider_calls = @ + 1, !.tries = @ + 1,
                           !.sent = @ \cup {gw.req},
                           !.last = IF valid THEN "valid" ELSE "invalid",
                           !.log = log_llm_call(@, LLMCallLog(gw.retries, TRUE, ""))]
       IN gw' = IF valid
                THEN [g EXCEPT !.pc = "done", !.result = "ok"]
                ELSE IF gw.call = 1
                THEN [g EXCEPT !.pc = "enter", !.call = 2, !.repair = TRUE,
                               !.purpose = Append(@, "_repair")]
                ELSE [g EXCEPT !.pc = "done", !.result = "ValidationError"]
    /\ GatewayFrame

\* lines 104-111 and 130-144: LLMRetryableError; the loop goes on while
\* attempts remain, else telemetry ok = False and the last error is raised.
ProviderRetryable ==
    /\ gw.pc = "attempt"
    /\ LET g == [gw EXCEPT !.provider_calls = @ + 1, !.provider_errors = @ + 1,
                           !.sent = @ \cup {gw.req},
                           !.tries = @ + 1, !.retries = @ + 1, !.last = "retryable"]
       IN gw' = IF attempts_exhausted(gw.attempt)
                THEN [g EXCEPT !.pc = "done", !.result = "LLMRetryableError",
                               !.log = log_llm_call(@,
                                   LLMCallLog(g.retries, FALSE, "LLMRetryableError"))]
                ELSE [g EXCEPT !.attempt = @ + 1]
    /\ GatewayFrame

\* lines 113-128: LLMNonRetryableError; telemetry ok = False and re-raise.
ProviderNonRetryable ==
    /\ gw.pc = "attempt"
    /\ gw' = [gw EXCEPT !.provider_calls = @ + 1, !.provider_errors = @ + 1,
                        !.sent = @ \cup {gw.req},
                        !.tries = @ + 1, !.last = "nonretryable",
                        !.pc = "done", !.result = "LLMNonRetryableError",
                        !.log = log_llm_call(@,
                            LLMCallLog(gw.retries, FALSE, "LLMNonRetryableError"))]
    /\ GatewayFrame

\* parse_matrix step 4 after the gateway returned the parsed matrix.
PersistParsed(w) ==
    /\ gw.pc = "done"
    /\ gw.result = "ok"
    /\ \E p \in ParsedChoices : ParsePersist(w, p)

\* parse_matrix: the gateway raised, or the persistence raises; the failure
\* is recorded.
RecordParseFailure(w) ==
    /\ gw.pc = "done"
    /\ ParseFail(w)

\* parse_matrix: the same with a recording that raises as well.
LoseParseFailure(w) ==
    /\ gw.pc = "done"
    /\ ParseFailUnrecorded(w)

NextGateway ==
    \/ GatewayEnter
    \/ \E valid \in BOOLEAN : ProviderReturns(valid)
    \/ ProviderRetryable
    \/ ProviderNonRetryable
    \/ \E w \in Workers :
        \/ PersistParsed(w)
        \/ RecordParseFailure(w)
        \/ LoseParseFailure(w)
        \/ ParseAfter(w)
        \/ Return(w)

SpecGateway == InitGateway /\ [][NextGateway]_vars

\* C23: one llm_generate call makes at most LLM_MAX_RETRIES + 1 provider
\* attempts; it stops at the first success; a non-retryable error is raised
\* at once; after a retryable error it tries again only while attempts
\* remain, and then raises the last retryable error.
C23_AttemptLoop ==
    [][gw.pc = "attempt" =>
        /\ gw'.tries = gw.tries + 1
        /\ gw'.tries <= LLM_MAX_RETRIES + 1
        /\ gw'.last \in {"valid", "invalid"} => gw'.pc # "attempt"
        /\ gw'.last = "nonretryable" =>
              (gw'.pc = "done" /\ gw'.result = "LLMNonRetryableError")
        /\ gw'.last = "retryable" =>
              IF gw'.tries <= LLM_MAX_RETRIES
              THEN gw'.pc = "attempt" /\ gw'.result = ""
              ELSE gw'.pc = "done" /\ gw'.result = "LLMRetryableError"]_vars

C23_Witness ==
    /\ gw.pc = "done"
    /\ gw.call = 1
    /\ gw.tries = LLM_MAX_RETRIES + 1
    /\ gw.provider_calls = 3
    /\ gw.last = "retryable"
    /\ gw.result = "LLMRetryableError"

\* The provider answers the repair call with a text that is still invalid.
RepairStillInvalid ==
    /\ gw.pc = "attempt"
    /\ gw.call = 2
    /\ gw'.last = "invalid"

\* C24: one llm_generate_structured invocation makes at most one repair
\* round-trip: the second llm_generate call is issued only after an invalid
\* first response and carries the stock __REPAIR_INSTRUCTIONS__; a repaired
\* response that is still invalid fails the invocation with an
\* LLMNonRetryableError, and no third call is made.
C24_OneRepairThenNonRetryable ==
    [][/\ gw'.call <= 2
       /\ gw'.call # gw.call =>
             (gw.call = 1 /\ gw'.last = "invalid" /\ gw'.repair /\ gw'.pc = "enter")
       /\ RepairStillInvalid =>
             (gw'.pc = "done" /\ gw'.result = "LLMNonRetryableError")]_vars

\* What holds of the repair: at most one, only after an invalid first
\* response, with the repair text; an invalid repaired response ends the
\* invocation with the parser's own exception.
OneRepair ==
    [][/\ gw'.call <= 2
       /\ gw'.call # gw.call =>
             (gw.call = 1 /\ gw'.last = "invalid" /\ gw'.repair /\ gw'.pc = "enter")
       /\ RepairStillInvalid =>
             (gw'.pc = "done" /\ gw'.result = "ValidationError")]_vars

\* C25: every gateway invocation that terminates has emitted a telemetry
\* record on its terminal outcome, with ok = true exactly when it succeeded.
C25_TelemetryOnEveryOutcome ==
    gw.pc = "done" =>
        /\ Len(gw.log) >= 1
        /\ gw.log[Len(gw.log)].ok = (gw.result = "ok")

\* What holds of the telemetry: every provider answer and every provider
\* error that ends an llm_generate call is logged, with ok = true for the
\* answers only.
TelemetryOfProviderOutcomes ==
    gw.pc = "done" =>
        IF gw.result \in {"ok", "ValidationError"}
        THEN Len(gw.log) = gw.call /\ gw.log[Len(gw.log)].ok
        ELSE IF gw.result \in {"LLMRetryableError", "LLMNonRetryableError"} /\ gw.tries > 0
        THEN Len(gw.log) = gw.call /\ ~gw.log[Len(gw.log)].ok
        ELSE Len(gw.log) = gw.call - 1

\* The invocation names a (prompt_name, prompt_version) outside the registry.
UnknownPrompt == gw.prompt \notin PROMPTS

\* C27: a gateway call naming a prompt that is not in the registry fails
\* fast with an LLMNonRetryableError, makes no provider call and is never
\* retried by the gateway.
C27_UnknownPromptNonRetryable ==
    (UnknownPrompt /\ gw.pc = "done") =>
        /\ gw.result = "LLMNonRetryableError"
        /\ gw.provider_calls = 0
        /\ gw.call = 1
        /\ gw.retries = 0

\* What holds for an unknown prompt: no provider call and no gateway retry;
\* the exception is the KeyError of get_prompt, unless the provider setting
\* is rejected first.
UnknownPromptFailsFast ==
    (UnknownPrompt /\ gw.pc = "done") =>
        /\ gw.result = IF gw.provider = "gemini" THEN "KeyError" ELSE "LLMNonRetryableError"
        /\ gw.provider_calls = 0
        /\ gw.call = 1
        /\ gw.retries = 0
        /\ gw.log = <<>>

\* The first response was invalid, the repair response valid, and no
\* provider attempt failed.
RepairedWithoutProviderError ==
    /\ gw.pc = "done"
    /\ gw.result = "ok"
    /\ gw.call = 2
    /\ gw.provider_errors = 0

\* The parse that called the gateway has persisted the matrix.
ParsePersisted == \E w \in Workers : wk[w].task = T_parse /\ wk[w].res = "parsed"

C29_FailureHasMessage ==
    status \in {FAILED_BAD_PDF, FAILED_PARSE, FAILED_GENERATION} => errMsg # "none"

\* What holds: the two failure statuses written by extract_pdf_text and
\* parse_matrix come with a message.
EarlyFailureHasMessage ==
    status \in {FAILED_BAD_PDF, FAILED_PARSE} => errMsg # "none"

\* ------------------------------------------------------------- happy path
\* The pipeline with every message delivered once and no step failing: the
\* storage, the LLM and the database answer, the PDF passes the gate and the
\* parsed matrix has levels and competencies.
NonEmptyParsed == { p \in ParsedChoices : p.nl > 0 /\ p.nc > 0 }

\* The upload of a PDF with embedded text.
UploadGoodPdf == Upload /\ pdfGood'

NextHappy ==
    \/ UploadGoodPdf
    \/ \E w \in Workers :
        \/ Return(w)
        \/ ExtractStart(w)
        \/ ExtractCommit(w)
        \/ ExtractAfter(w)
        \/ ParseStart(w)
        \/ ParseClaim(w)
        \/ \E p \in NonEmptyParsed : ParsePersist(w, p)
        \/ ParseAfter(w)
        \/ KickoffStart(w)
        \/ KickoffClaim(w)
        \/ KickoffEnqueue(w)
        \/ \E t \in Tasks : GenStart(w, t)
        \/ GenPersist(w)
        \/ FinalizeStart(w)
        \/ FinalizeCount(w)

SpecHappy == Init /\ [][NextHappy]_vars

\* The status flow of the happy path.
HappyFlow ==
    <<QUEUED, EXTRACTING_TEXT, TEXT_EXTRACTED, PARSING_MATRIX, MATRIX_PARSED,
      GENERATING_EXAMPLES, DONE>>

\* The consecutive pairs of a sequence.
StepsOf(flow) == { <<flow[i], flow[i + 1]>> : i \in 1..(Len(flow) - 1) }

\* C28: on the happy path the committed status, the one another session
\* reads, goes through QUEUED, EXTRACTING_TEXT, TEXT_EXTRACTED,
\* PARSING_MATRIX, MATRIX_PARSED, GENERATING_EXAMPLES, DONE, one after the
\* other.
C28_HappyFlowCommitted ==
    [][status' # status => <<status, status'>> \in StepsOf(HappyFlow)]_vars

\* What holds: the committed status goes through the same flow without
\* EXTRACTING_TEXT, which extract_pdf_text flushes and never commits.
HappyFlowWithoutExtracting ==
    [][status' # status =>
        <<status, status'>> \in
            StepsOf(<<QUEUED, TEXT_EXTRACTED, PARSING_MATRIX, MATRIX_PARSED,
                      GENERATING_EXAMPLES, DONE>>)]_vars

\* The values of the Enum GuideStatus of constants/statuses.py, the type the
\* services, the repository and the tasks import and write from.
GuideStatus ==
    { "UPLOADED", "QUEUED", "RUNNING_EXTRACT", "RUNNING_PARSE",
      "RUNNING_GENERATE", "READY", "FAILED" }

\* C30: the persisted status is always one of the ten values QUEUED ...
\* FAILED_GENERATION, the status type the code writes from defines exactly
\* these values, and pdf_path keeps the value set at creation.
C30_StatusEnumeratedPathFixed ==
    /\ status \in Statuses
    /\ GuideStatus = Statuses
    /\ pdfPath = stored_path

\* What holds when the members the code names are taken by their names: the
\* status stays within the ten values and pdf_path is never written.
StatusOfTenPathFixed ==
    /\ status \in Statuses
    /\ pdfPath = stored_path

\* --------------------------------------------------------- upload (ingress)
\* POST /api/guides followed from the request on: the guide row does not
\* exist before create_guide commits it.  fnArgs holds the request's outcome
\* and, once the guide is created, the status attribute the request's
\* session loaded with db.refresh(guide); fnRes holds the response.
NoGuide == ""

\* What the request meets: a valid upload with storage and broker answering,
\* a rejected upload (validate_role_title, normalize_website_url,
\* validate_pdf_upload), a storage error, or a broker error in .delay().
UploadOutcomes == { "ok", "invalid", "storage_error", "broker_error" }

InitUpload ==
    /\ status = NoGuide
    /\ pdfPath = ""
    /\ rowLock = NoLock
    /\ lastWrite = <<>>
    /\ errMsg = "none"
    /\ artifacts = {}
    /\ parseRuns = <<>>
    /\ nLevels = 0
    /\ nComps = 0
    /\ cells = {}
    /\ cellGen = [c \in AllCells |-> "none"]
    /\ queue = [t \in Tasks |-> 0]
    /\ seen = {}
    /\ dups = 0
    /\ wk = [w \in Workers |-> Idle]
    /\ pdfGood = TRUE
    /\ CallersIdle
    /\ UpsertsIdle
    /\ ServicesIdle
    /\ fnArgs \in { <<o>> : o \in UploadOutcomes }
    /\ fnRes = <<>>

from_guide_Refreshed(loaded, committed) == committed

\* LevelingGuideCreateResponse.from_guide(guide): status=str(guide.status),
\* the attribute as the request's session loaded it after the commit of
\* create_guide, whatever the committed row holds by now.
from_guide(loaded, committed) == loaded

\* create_guide_from_upload, lines 58-85: validate, upload the PDF,
\* create_guide(status=QUEUED, pdf_path=stored.path) with its commit and
\* refresh, then extract_text_task.delay(guide.id).
UploadCreate ==
    /\ NoneReturning
    /\ status = NoGuide
    /\ Len(fnArgs) = 1
    /\ fnRes = <<>>
    /\ IF fnArgs[1] \in {"invalid", "storage_error"}
       THEN /\ fnRes' = <<"error">>
            /\ UNCHANGED <<db, queue, seen, pdfGood, fnArgs>>
       ELSE /\ status' = QUEUED
            /\ pdfPath' = stored_path
            /\ UNCHANGED <<errMsg, artifacts, parseRuns, nLevels, nComps, cells, cellGen>>
            /\ IF fnArgs[1] = "broker_error"
               THEN /\ fnRes' = <<"error">>
                    /\ UNCHANGED <<queue, seen, pdfGood, fnArgs>>
               ELSE /\ queue' = Enqueue(queue, T_extract)
                    /\ seen' = {T_extract}
                    /\ pdfGood' \in BOOLEAN
                    /\ fnArgs' = <<"ok", QUEUED>>
                    /\ fnRes' = fnRes
    /\ UNCHANGED <<rowLock, lastWrite, dups, wk, callers, upserts, services>>

\* line 87 and the router: the response is built and returned.
UploadRespond ==
    /\ NoneReturning
    /\ Len(fnArgs) = 2
    /\ fnRes = <<>>
    /\ fnRes' = <<from_guide(fnArgs[2], status)>>
    /\ UNCHANGED <<db, rowLock, lastWrite, broker, wk, pdfGood, callers, fnArgs, upserts, services>>

NextUpload ==
    \/ UploadCreate
    \/ UploadRespond
    \/ \E t \in Tasks : Redeliver(t)
    \/ \E w \in Workers :
        \/ Return(w)
        \/ ExtractStart(w)
        \/ ExtractCommit(w)
        \/ ExtractFail(w)
        \/ ExtractAfter(w)
        \/ ParseStart(w)
        \/ ParseClaim(w)
        \/ ParseFetchFail(w)
        \/ \E p \in ParsedChoices : ParsePersist(w, p)
        \/ ParseFail(w)
        \/ ParseFailUnrecorded(w)
        \/ ParseAfter(w)
        \/ KickoffStart(w)
        \/ KickoffClaim(w)
        \/ KickoffEnqueue(w)
        \/ \E t \in Tasks : GenStart(w, t)
        \/ GenPersist(w)
        \/ GenRepair(w)
        \/ GenInvalid(w)
        \/ GenInvalidUnrecorded(w)
        \/ GenError(w)
        \/ FinalizeStart(w)
        \/ FinalizeCount(w)

SpecUpload == InitUpload /\ [][NextUpload]_vars

\* The tasks whose service methods write guide.status.
StatusWriters == { "extract", "parse", "kickoff", "finalize" }

\* C31: a guide created by a successful upload starts QUEUED, the creation
\* response reports QUEUED, the upload enqueues exactly one extract_text_task,
\* and afterwards the status is changed only by a step of a pipeline task.
C31_UploadCreatesQueued ==
    /\ [](fnRes # <<>> /\ fnRes[1] # "error" =>
            /\ fnRes[1] = QUEUED
            /\ status # NoGuide
            /\ T_extract \in seen)
    /\ [][/\ (status = NoGuide /\ status' # NoGuide) => status' = QUEUED
          /\ (Len(fnArgs) = 1 /\ Len(fnArgs') = 2) =>
                /\ status' = QUEUED
                /\ queue' = [t \in Tasks |-> IF t = T_extract THEN 1 ELSE 0]
          /\ (Len(fnArgs) = 2 /\ fnRes' # fnRes) => queue' = queue
          /\ (status # NoGuide /\ status' # status) =>
                \E w \in Workers : Steps(w) /\ wk'[w].task.type \in StatusWriters]_vars

\* The response is returned after a worker has already extracted the text.
C31_Witness ==
    /\ fnRes = <<QUEUED>>
    /\ status = TEXT_EXTRACTED
    /\ seen = {T_extract, T_parse}

\* ------------------------------------------------------ semantic validation
\* Texts are sets of words; `term in text` of the code is substring search in
\* the lower-cased text, so a word contains the terms that are substrings of
\* its lower-case form ("laws" contains "aws").
Vocabulary == { "Kubernetes", "laws" }
Texts == SUBSET Vocabulary

lower(word) == IF word = "Kubernetes" THEN "kubernetes" ELSE word

\* term is a substring of the lower-case string s.
IsSubstring(term, s) ==
    \/ term = s
    \/ term = "aws" /\ s = "laws"

\* `term in text.lower()`
Contains(text, term) == \E word \in text : IsSubstring(term, lower(word))

\* _find_forbidden_terms, lines 86-94: the deny list.
deny ==
    << "redis", "redis cloud", "kafka", "kubernetes", "docker", "aws", "gcp",
       "azure", "spark", "datadog", "opentelemetry", "terraform", "helm",
       "postgres", "mysql", "mongodb", "grpc", "protobuf", "vault" >>

\* _build_allowed_corpus: base_context, then the competency name and the
\* cell_text of every item, joined by newlines.
_build_allowed_corpus(base_context, competency, cell_text) == base_context \cup competency \cup cell_text

RECURSIVE Hits(_, _, _)
Hits(i, text, allowed_corpus) ==
    IF i > Len(deny) THEN <<>>
    ELSE (IF Contains(text, deny[i]) /\ ~Contains(allowed_corpus, deny[i])
          THEN <<deny[i]>> ELSE <<>>) \o Hits(i + 1, text, allowed_corpus)

\* _find_forbidden_terms: the deny terms in the text and not in the corpus,
\* in the order of the deny list.
_find_forbidden_terms(text, allowed_corpus) == Hits(1, text, allowed_corpus)

\* _validate_batch_result on a result that passes every other rule (one
\* entry per item, three distinct examples of 2..5 sentences): line 142-144
\* on the example with the given title and body.
_validate_batch_result(title, body, base_context, competency, cell_text) ==
    LET forbidden == _find_forbidden_terms(title \cup body, _build_allowed_corpus(base_context, competency, cell_text))
    IN IF forbidden # <<>>
       THEN [ok |-> FALSE, err |-> <<"Forbidden terms not present in inputs", forbidden>>]
       ELSE [ok |-> TRUE, err |-> <<>>]

\* fnArgs: <<title, body, base_context, competency, cell_text, text2>>, the
\* last being title and body of the example the repair call returns.
InitValidate ==
    /\ PipelineIdle
    /\ CallersIdle
    /\ UpsertsIdle
    /\ ServicesIdle
    /\ status = GENERATING_EXAMPLES
    /\ fnArgs \in Texts \X Texts \X Texts \X Texts \X Texts \X Texts
    /\ fnRes = <<>>

\* generate_level_chunk, line 360: the first validation.
ValidateBatch ==
    /\ fnRes = <<>>
    /\ fnRes' = <<_validate_batch_result(fnArgs[1], fnArgs[2], fnArgs[3], fnArgs[4], fnArgs[5])>>
    /\ UNCHANGED <<db, rowLock, lastWrite, broker, wk, pdfGood, callers, fnArgs, upserts, services>>

\* lines 361-392: the first result is rejected; the repair result is
\* validated and, when rejected too, the FAILED rows carry
\* error_message = "LLM validation failed: {err2 or err}".
ValidateRepair ==
    /\ Len(fnRes) = 1
    /\ ~fnRes[1].ok
    /\ LET r2 == _validate_batch_result({}, fnArgs[6], fnArgs[3], fnArgs[4], fnArgs[5])
       IN fnRes' = <<fnRes[1], r2,
                     IF r2.ok THEN [status |-> "SUCCESS", error_message |-> <<>>]
                     ELSE [status |-> "FAILED", error_message |-> <<"LLM validation failed", r2.err>>]>>
    /\ UNCHANGED <<db, rowLock, lastWrite, broker, wk, pdfGood, callers, fnArgs, upserts, services>>

NextValidate == ValidateBatch \/ ValidateRepair

SpecValidate == InitValidate /\ [][NextValidate]_vars

\* The deny terms of the text that are neither in base_context nor in the
\* cell_text.
Ungrounded(text, base_context, cell_text) ==
    { deny[i] : i \in { j \in 1..Len(deny) :
          Contains(text, deny[j]) /\ ~Contains(base_context \cup cell_text, deny[j]) } }

\* C32: a result that passes the other rules is rejected if and only if the
\* title or body of an example contains a deny term that is neither in
\* base_context nor in an input cell_text; when that is still so after the
\* repair, the cells are marked FAILED with a message naming the term.
C32_DenylistRejects ==
    /\ Len(fnRes) >= 1 =>
          (~fnRes[1].ok <=> Ungrounded(fnArgs[1] \cup fnArgs[2], fnArgs[3], fnArgs[5]) # {})
    /\ (Len(fnRes) = 3 /\ Ungrounded(fnArgs[6], fnArgs[3], fnArgs[5]) # {}) =>
          /\ fnRes[3].status = "FAILED"
          /\ Range(fnRes[3].error_message[2][2]) \cap Ungrounded(fnArgs[6], fnArgs[3], fnArgs[5]) # {}

\* What holds: the competency names of the items count as context too.  A
\* result is rejected exactly when a deny term of an example is in none of
\* base_context, the competency names and the cell_texts, and a result
\* rejected after the repair gives FAILED with a message listing those terms.
DenylistRejectsOutsideInputs ==
    /\ Len(fnRes) >= 1 =>
          (~fnRes[1].ok <=>
              Ungrounded(fnArgs[1] \cup fnArgs[2], fnArgs[3] \cup fnArgs[4], fnArgs[5]) # {})
    /\ Len(fnRes) = 3 =>
          LET named == Ungrounded(fnArgs[6], fnArgs[3] \cup fnArgs[4], fnArgs[5])
          IN IF named # {}
             THEN /\ fnRes[3].status = "FAILED"
                  /\ Range(fnRes[3].error_message[2][2]) = named
             ELSE fnRes[3].status = "SUCCESS"

\* ------------------------------------------- the writes of one chunk run
\* The persistence blocks of generate_level_chunk (FAILED rows, lines
\* 376-393; result rows, lines 404-444) in one session: one
\* upsert_cell_generation per wanted cell, then one commit.
\* fnArgs = <<k, st, rows0>>: the wanted cells 1..k, the status the run
\* writes, the committed rows of the wanted cells when the run starts.
\* fnRes = <<rows, pending, pc>>: the committed rows, the cells flushed in
\* the open transaction, and where the run is.
MaxWanted == 3

\* A row of cell_generations: its status and whether this run wrote it.
NoRow == [status |-> "none", run |-> 0]
EarlierFailed == [status |-> "FAILED", run |-> 0]
WrittenRow(st) == [status |-> st, run |-> 1]

InitChunkWrite ==
    /\ PipelineIdle
    /\ CallersIdle
    /\ UpsertsIdle
    /\ ServicesIdle
    /\ status = GENERATING_EXAMPLES
    /\ \E k \in 1..MaxWanted, st \in {"SUCCESS", "FAILED"} :
        \E rows0 \in [1..k -> {NoRow, EarlierFailed}] :
            /\ fnArgs = <<k, st, rows0>>
            /\ fnRes = <<rows0, {}, "loop">>

flush_Autocommit(rows, c, row) == [rows EXCEPT ![c] = row]

\* self.db.flush() at the end of upsert_cell_generation (write.py 41, 57):
\* the INSERT or UPDATE is sent inside the session's open transaction
\* (autocommit=False); the committed rows stay as they are.
flush(rows, c, row) == rows

\* self.db.commit(): the flushed rows become the committed ones.
commit(rows, pending, row) == [c \in DOMAIN rows |-> IF c \in pending THEN row ELSE rows[c]]

\* The next iteration of `for comp, cell in wanted`: upsert_cell_generation.
ChunkUpsert ==
    /\ fnRes[3] = "loop"
    /\ fnRes[2] # 1..fnArgs[1]
    /\ LET c == Cardinality(fnRes[2]) + 1
       IN fnRes' = <<flush(fnRes[1], c, WrittenRow(fnArgs[2])), fnRes[2] \cup {c}, "loop">>
    /\ UNCHANGED <<db, rowLock, lastWrite, broker, wk, pdfGood, callers, fnArgs, upserts, services>>

\* After the loop: self.db.commit(), then return (result rows) or raise
\* AppError (FAILED rows).
ChunkCommit ==
    /\ fnRes[3] = "loop"
    /\ fnRes[2] = 1..fnArgs[1]
    /\ fnRes' = <<commit(fnRes[1], fnRes[2], WrittenRow(fnArgs[2])), {},
                  IF fnArgs[2] = "SUCCESS" THEN "returned" ELSE "raised">>
    /\ UNCHANGED <<db, rowLock, lastWrite, broker, wk, pdfGood, callers, fnArgs, upserts, services>>

\* An upsert or the commit raises (`except Exception: self.db.rollback()`,
\* lines 392-393 and 442-444); the run ends raising either way.
ChunkRollback ==
    /\ fnRes[3] = "loop"
    /\ fnRes' = <<fnRes[1], {}, "raised">>
    /\ UNCHANGED <<db, rowLock, lastWrite, broker, wk, pdfGood, callers, fnArgs, upserts, services>>

\* The worker process is lost before the commit: its connection closes and
\* the server aborts the open transaction.
ChunkWorkerLost ==
    /\ fnRes[3] = "loop"
    /\ fnRes' = <<fnRes[1], {}, "lost">>
    /\ UNCHANGED <<db, rowLock, lastWrite, broker, wk, pdfGood, callers, fnArgs, upserts, services>>

NextChunkWrite == ChunkUpsert \/ ChunkCommit \/ ChunkRollback \/ ChunkWorkerLost

SpecChunkWrite == InitChunkWrite /\ [][NextChunkWrite]_vars

\* C33: the CellGeneration writes of one chunk run are all-or-nothing.  In
\* every state, and so however the run ends, either every wanted cell holds
\* the row this run wrote or the committed rows are those the run found.
C33_ChunkWritesAtomic ==
    Len(fnRes) = 3 =>
        \/ fnRes[1] = fnArgs[3]
        \/ \A c \in 1..fnArgs[1] : fnRes[1][c] = WrittenRow(fnArgs[2])

\* A run of three cells, one with a FAILED row of an earlier run, has
\* committed its SUCCESS rows.
C33_Witness ==
    /\ Len(fnRes) = 3
    /\ fnRes[3] = "returned"
    /\ fnArgs[1] = MaxWanted
    /\ fnArgs[3][1] = EarlierFailed
    /\ fnArgs[3][2] = NoRow
    /\ \A c \in 1..MaxWanted : fnRes[1][c] = WrittenRow("SUCCESS")

\* The scoring table of the extract phase read top to bottom, in hundredths:
\* the base of the char_count band, then matrix signals, table signals, the
\* garbled penalty and the scanned cap.
ScoreInTableOrder(char_count, pages_with_text, low_printable, has_matrix_signals, has_table_signals) ==
    LET base == IF char_count < 800 \/ pages_with_text = 0 THEN 10
                ELSE IF char_count <= 2500 THEN 40
                ELSE 80
        m == IF has_matrix_signals /\ char_count > 2500 THEN Min(95, base + 15)
             ELSE IF has_matrix_signals THEN Min(85, base + 10)
             ELSE base
        t == IF has_table_signals THEN Min(95, m + 5) ELSE m
        g == IF char_count > 0 /\ low_printable THEN Max(5, t - 25) ELSE t
    IN IF pages_with_text = 0 \/ char_count < 200 THEN Min(g, 10) ELSE g

\* C34: for every input score_extraction returns a confidence within
\* [0, 0.95] that is the base of the char_count band followed by the
\* adjustments in the order of the scoring table (matrix, table, garbled
\* with floor 0.05, scanned cap), and at most 0.10 when is_scanned_likely.
C34_ScoreInTableOrder ==
    LET q == QualityOf(fnArgs) IN
    /\ q.confidence \in 0..95
    /\ q.confidence = ScoreInTableOrder(fnArgs[1], fnArgs[2], fnArgs[3], fnArgs[4], fnArgs[5])
    /\ q.is_scanned_likely => q.confidence <= 10

\* What holds: the confidence is within [0.05, 0.95], at most 0.10 when
\* scanned, and the table's order gives it whenever the text is not both
\* garbled and with table signals.
ScoreBoundedAndOrderedUnlessGarbledTable ==
    LET q == QualityOf(fnArgs) IN
    /\ q.confidence \in 5..95
    /\ q.is_scanned_likely => q.confidence <= 10
    /\ ~(q.is_garbled_likely /\ fnArgs[5]) =>
          q.confidence = ScoreInTableOrder(fnArgs[1], fnArgs[2], fnArgs[3], fnArgs[4], fnArgs[5])

\* The run of worker w writes its CellGeneration rows in this step.
GenWrites(w) == wk[w].pc = "G_llm" /\ Steps(w) /\ cellGen' # cellGen

\* The run of worker w commits result rows in this step.
GenPersists(w) == wk[w].pc = "G_llm" /\ wk'[w].pc = "return" /\ wk'[w].res = "ok"

\* C35: once the CellGeneration row of a cell is SUCCESS, no later or
\* concurrent chunk run changes it to FAILED or replaces its examples, two
\* overlapping deliveries of one chunk included.
C35_SuccessRowStable ==
    [][/\ \A c \in AllCells : cellGen[c] = "SUCCESS" => cellGen'[c] = "SUCCESS"
       /\ \A w \in Workers :
             GenPersists(w) => \A c \in wk[w].wanted : cellGen[c] # "SUCCESS"]_vars

\* What holds: a run received after the row became SUCCESS leaves the cell
\* out of its wanted cells, and a run writes its wanted cells only.
SuccessRowSkippedByLaterRun ==
    [][\A w \in Workers :
          /\ GenReceived(w) => \A c \in wk'[w].wanted : cellGen[c] # "SUCCESS"
          /\ GenWrites(w) => \A c \in AllCells \ wk[w].wanted : cellGen'[c] = cellGen[c]]_vars

\* ------------------------------------------------ kickoff with worker loss
\* The worker running start_phase4 is lost after the commit of the claim
\* (line 204) and before the sends (lines 231-245).  The message was not
\* acknowledged (task_acks_late, task_reject_on_worker_lost), so the broker
\* delivers it again.
KickoffLost(w) ==
    /\ At(w, "K_enqueue")
    /\ queue' = Enqueue(queue, T_kickoff)
    /\ wk' = [wk EXCEPT ![w] = End(@, "lost")]
    /\ UNCHANGED <<db, rowLock, lastWrite, seen, dups, pdfGood, callers, pure, upserts, services>>

NextKickoffLost ==
    \/ Redeliver(T_kickoff)
    \/ \E w \in Workers :
        \/ Return(w)
        \/ KickoffStart(w)
        \/ KickoffClaim(w)
        \/ KickoffEnqueue(w)
        \/ KickoffLost(w)

\* A delivered task is run and a running task function goes on to its end.
KickoffProgress ==
    \E w \in Workers :
        Return(w) \/ KickoffStart(w) \/ KickoffClaim(w) \/ KickoffEnqueue(w)

SpecKickoffLost ==
    InitKickoff /\ [][NextKickoffLost]_vars /\ WF_vars(KickoffProgress)

\* A kickoff worker was lost between the claim and the sends.
KickoffWorkerLost == \E w \in Workers : wk[w].pc = "return" /\ wk[w].res = "lost"

\* Every chunk task of the guide and the finalize task have been sent.
FanOutSent == FanOut(nLevels, nComps) \cup {T_finalize} \subseteq seen

\* C36: when the kickoff worker is lost after the claim was committed and
\* before the sends, the redelivered kickoff eventually sends every chunk
\* task and the finalize task of the guide.
C36_LostKickoffResumes ==
    (KickoffWorkerLost /\ nLevels > 0 /\ nComps > 0) ~> FanOutSent

\* What holds: a kickoff that finds the guide in GENERATING_EXAMPLES sends
\* nothing, so after the loss no chunk task and no finalize task is sent.
KickoffWhileGeneratingSendsNothing ==
    [][\A w \in Workers :
          (Steps(w) /\ wk'[w].task = T_kickoff /\ wk'[w].snap = GENERATING_EXAMPLES)
             => seen' = seen /\ \A t \in Tasks : queue'[t] <= queue[t]]_vars

\* -------------------------------------------------- parse: does it finish
\* The worker running parse_matrix is lost after the commit of the claim
\* (line 237); the unacknowledged message is delivered again.
ParseLost(w) ==
    /\ At(w, "P_llm")
    /\ queue' = Enqueue(queue, T_parse)
    /\ wk' = [wk EXCEPT ![w] = End(@, "lost")]
    /\ UNCHANGED <<db, rowLock, lastWrite, seen, dups, pdfGood, callers, pure, upserts, services>>

NextParseLive ==
    \/ Upload
    \/ \E w \in Workers :
        \/ Return(w)
        \/ ExtractStart(w)
        \/ ExtractCommit(w)
        \/ ExtractAfter(w)
        \/ ParseStart(w)
        \/ ParseClaim(w)
        \/ ParseFetchFail(w)
        \/ \E p \in ParsedChoices : ParsePersist(w, p)
        \/ ParseFail(w)
        \/ ParseFailUnrecorded(w)
        \/ ParseLost(w)
        \/ ParseAfter(w)
        \/ KickoffStart(w)
        \/ KickoffClaim(w)
        \/ KickoffEnqueue(w)

\* The pipeline from the upload to the kickoff; every message sent is
\* delivered and every task function runs to its end.
SpecParseLive == Init /\ [][NextParseLive]_vars /\ WF_vars(NextParseLive)

\* C37: a guide that enters PARSING_MATRIX eventually leaves it for
\* MATRIX_PARSED or FAILED_PARSE, also when the text download fails or the
\* worker is lost after the claim was committed.
C37_ParsingEventuallyEnds ==
    (status = PARSING_MATRIX) ~> (status \in {MATRIX_PARSED, FAILED_PARSE})

\* What holds: a parse task delivered while the guide is in PARSING_MATRIX
\* calls no LLM and writes nothing; it fails its claim and ends.
ParseWhileParsingDoesNothing ==
    [][\A w \in Workers :
          (Steps(w) /\ wk'[w].task = T_parse /\ wk'[w].snap = PARSING_MATRIX)
             => db' = db /\ wk'[w].pc # "P_llm"]_vars

\* ----------------------------------------------- generate: does it finish
\* No chunk task is pending or running.
ChunksOver ==
    /\ \A t \in Tasks : t.type = "gen" => queue[t] = 0
    /\ \A w \in Workers : wk[w].task.type # "gen"

\* The finalize task is sent with countdown=30 and polls every 30 seconds:
\* here it is delivered once the chunk tasks are over, the schedule that
\* lets it see every row the chunk tasks write.
FinalizeStartAfterChunks(w) == ChunksOver /\ FinalizeStart(w)

NextGenerateLive ==
    \E w \in Workers :
        \/ Return(w)
        \/ \E t \in Tasks : GenStart(w, t)
        \/ GenPersist(w)
        \/ GenRepair(w)
        \/ GenInvalid(w)
        \/ GenInvalidUnrecorded(w)
        \/ GenError(w)
        \/ FinalizeStartAfterChunks(w)
        \/ FinalizeCount(w)

\* Every delivery runs and every task function runs to its end.
SpecGenerateLive == InitGenerate /\ [][NextGenerateLive]_vars /\ WF_vars(NextGenerateLive)

\* C38: a guide in GENERATING_EXAMPLES with its chunk tasks and its finalize
\* task sent eventually reaches DONE or FAILED_GENERATION, also when the LLM
\* gateway raises on every attempt of a chunk and when the guide has no
\* GuideCell rows.
C38_GenerationEventuallyEnds ==
    (status = GENERATING_EXAMPLES) ~> (status \in {DONE, FAILED_GENERATION})

\* What holds: the guide leaves GENERATING_EXAMPLES only for DONE or
\* FAILED_GENERATION, and only once it has cells and every cell has a row.
GenerationEndsOnlyWithAllRows ==
    [][(status = GENERATING_EXAMPLES /\ status' # status) =>
          /\ status' \in {DONE, FAILED_GENERATION}
          /\ cells # {}
          /\ CountRows >= Cardinality(cells)]_vars

\* The kickoff run of worker w has ended with start_phase4 raising.
KickoffRaised(w) ==
    /\ wk[w].task = T_kickoff
    /\ wk[w].pc = "return"
    /\ wk[w].res = "app_error"

\* No generate_cells_task and no finalize_generation_task has been sent.
NothingSent == \A t \in seen : t.type \notin {"gen", "finalize"}

\* C39: whenever start_phase4 ends by raising (guide not in MATRIX_PARSED, no
\* levels or no competencies), the persisted status is the one before the
\* call and no chunk task and no finalize task has been sent.
C39_FailedKickoffChangesNothing ==
    \A w \in Workers :
        KickoffRaised(w) =>
            /\ ~wk[w].claimed
            /\ status = wk[w].snap
            /\ NothingSent

\* What holds: a start_phase4 that raises has sent nothing; when it raises
\* for missing levels or competencies it has already committed the claim
\* and the guide is left in GENERATING_EXAMPLES.
FailedKickoffSendsNothing ==
    \A w \in Workers :
        KickoffRaised(w) =>
            /\ NothingSent
            /\ wk[w].claimed => status = GENERATING_EXAMPLES /\ (nLevels = 0 \/ nComps = 0)

\* C40: every provider request of a generate_structured invocation with
\* purpose parse_matrix, the repair call's included, carries
\* max_output_tokens of at least 8192 and otherwise the same model,
\* temperature, timeout and response MIME type.
C40_ParseRequestsRaised ==
    gw.pc # "none" =>
        /\ \A r \in gw.sent : r.max_output_tokens >= 8192
        /\ \A r1, r2 \in gw.sent :
              /\ r1.model = r2.model
              /\ r1.temperature = r2.temperature
              /\ r1.timeout_seconds = r2.timeout_seconds
              /\ r1.response_mime_type = r2.response_mime_type

\* What holds: the requests of the first llm_generate call carry at least
\* 8192, those of the repair call carry settings.LLM_MAX_OUTPUT_TOKENS, and
\* all of them share model, temperature, timeout and application/json.
ParseRequestsRaisedInFirstCall ==
    gw.pc # "none" =>
        \A r \in gw.sent :
            /\ r.purpose = parse_matrix_purpose => r.max_output_tokens >= 8192
            /\ r.purpose # parse_matrix_purpose =>
                  /\ r.purpose = <<"parse_matrix", "_repair">>
                  /\ r.max_output_tokens = LLM_MAX_OUTPUT_TOKENS
            /\ r.model = GEMINI_MODEL
            /\ r.temperature = LLM_TEMPERATURE
            /\ r.timeout_seconds = LLM_TIMEOUT_SECONDS
            /\ r.response_mime_type = "application/json"

====
